---- MODULE Spec2Model ----
(***************************************************************************)
(* A model of the Appose service/worker protocol engine.                   *)
(*                                                                         *)
(*   client side : src/src/appose/service.py        (Service, Task)        *)
(*   worker side : src/src/appose/python_worker.py  (Worker, Task)         *)
(*                                                                         *)
(* The two processes are joined by two pipes: stdin carries the requests   *)
(* the client writes, stdout the responses the worker writes.  Every       *)
(* thread of either process is a small program counter; one action is one  *)
(* step of one thread between two accesses of shared state.                *)
(***************************************************************************)
EXTENDS Integers, Sequences, FiniteSets, TLC

\* ---------------------------------------------------------------- bounds
\* Number of Task objects the caller threads construct on the service.
MaxTasks == 2
\* The same number where the callers also call cancel() on a task and the
\* worker is killed before it has handled a request (SpecCancelEarly).
MaxTasksCancel == 3
\* The same number where the callers also register listeners (SpecListen),
\* or call start() again and wait_for() (SpecCalls).
MaxTasksCallers == 1
\* Number of tasks that are started (whose EXECUTE request is attempted).
MaxStarted == 1
\* Number of task.update/cancel/fail calls one script makes before it ends.
MaxScriptOps == 1
\* Number of listen() calls the callers make, over all tasks.
MaxListeners == 2
\* Number of cancel() calls the callers make, over all tasks.
MaxCancels == 1
\* Number of start() calls that are rejected, over all tasks.
MaxRejected == 1
\* Number of wait_for() calls the callers make, over all tasks.
MaxWaits == 1
\* Number of caller threads that each write one request to the worker's
\* stdin, in the specification of the wire.
MaxWriters == 3
\* Number of caller threads that each call Service.start() once, directly or
\* through Service.task(), in the specification of the spawn.
MaxCallers == 4
\* Number of tasks one worker runs in the specification of the script scopes.
MaxScopeTasks == 2
\* Number of tasks, and of lines the stdout pump reads, in the
\* specification of the stdout lines.
MaxStdoutTasks == 2
MaxStdoutLines == 3

\* Number of task threads that encode responses at the same time, and of
\* objects each of them auto-exports.
MaxEncoders == 2
MaxAutoExports == 2

\* The task threads that encode responses at the same time.
Encoders == 1..MaxEncoders

\* Number of tasks, of listeners over all tasks, of response lines the
\* worker writes, of wait_for() calls and of listener invocations that
\* raise, in the specification of the listeners that raise.
MaxFanTasks == 2
MaxFanListeners == 2
MaxFanLines == 2
MaxFanWaits == 1
MaxFanRaises == 1

\* Number of calls made on the Service object, in the specification of
\* its lifecycle.
MaxServiceOps == 4

\* The tasks whose listeners may raise.
FanTasks == 1..MaxFanTasks

\* The worker-side tasks whose script scopes are followed.
ScopeTasks == 1..MaxScopeTasks
\* The names scripts assign or export, and the name message.encode gives an
\* object it auto-exports (`_appose_auto_{N}`).
ScriptNames == {"a", "b"}
AutoNames == {"_appose_auto_0"}

\* The caller threads that call Service.start() at the same time.
Callers == 1..MaxCallers
\* The caller threads that write to the worker's stdin at the same time.
Writers == 1..MaxWriters
\* The newline on the wire; the text of a request is written as its writer.
Newline == 0

\* The task ids (the model's uuids), in order of construction.
Tasks == 1..(IF MaxTasksCancel > MaxTasks THEN MaxTasksCancel ELSE MaxTasks)

\* ---------------------------------------------------------------- enums
\* TaskStatus
INITIAL == "INITIAL"
QUEUED == "QUEUED"
RUNNING == "RUNNING"
COMPLETE == "COMPLETE"
CANCELED == "CANCELED"
FAILED == "FAILED"
CRASHED == "CRASHED"
TaskStatus == {INITIAL, QUEUED, RUNNING, COMPLETE, CANCELED, FAILED, CRASHED}

\* TaskStatus.is_finished
is_finished(s) == s \in {COMPLETE, CANCELED, FAILED, CRASHED}

\* RequestType
EXECUTE == "EXECUTE"
CANCEL == "CANCEL"

\* ResponseType
LAUNCH == "LAUNCH"
UPDATE == "UPDATE"
COMPLETION == "COMPLETION"
CANCELATION == "CANCELATION"
FAILURE == "FAILURE"
CRASH == "CRASH"

\* ResponseType.is_terminal
is_terminal(r) == r \in {COMPLETION, CANCELATION, FAILURE, CRASH}

\* The error texts that occur: none, a traceback, the janitor's text, and
\* the text a script passes to task.fail.
NoError == "none"
Traceback == "traceback"
ThreadDeath == "thread death"
ScriptError == "script error"

VARIABLES
  \* ---- client process (service.py)
  proc,        \* Service._process: "none" | "running" | "exited"
  stdinOpen,   \* the client's end of the worker's stdin is open
  created,     \* the Task objects constructed so far (uuid = creation index)
  registry,    \* Service._tasks (its keys)
  status,      \* Task.status
  error,       \* Task.error
  listeners,   \* Task.listeners: how many are registered, in order 1..n
  events,      \* the TaskEvents fanned out for each task, in order
  calls,       \* the listener invocations of each task: <<listener, event>>
  startPc,     \* position of the thread inside Task.start
  ncancel,     \* cancel() calls made on each task
  waitPc,      \* position of the thread inside Task.wait_for
  pump,        \* Service._stdout_loop thread
  mon,         \* Service._monitor_loop thread
  \* ---- the pipes
  stdin,       \* requests written and not yet read by the worker
  stdout,      \* responses written and not yet read by the stdout pump
  \* ---- worker process (python_worker.py)
  wtasks,      \* Worker.tasks (its keys)
  wt,          \* the worker-side Task objects
  wqueue,      \* Worker.queue
  running,     \* Worker.running
  recv,        \* Worker._process_input thread
  jan,         \* Worker._cleanup_threads thread
  mainl,       \* Worker.run main loop
  \* ---- history
  written,     \* the responses the worker wrote for each task, in order
  executes,    \* the EXECUTE requests written for each task
  rejected,    \* the start() calls on each task that raised RuntimeError
  atExit,      \* Service._tasks (its keys) when the worker process exited
  cancelEarly, \* tasks whose CANCEL was written after their EXECUTE and
               \* before their LAUNCH was handled
  \* ---- caller threads inside Task.listen
  listenPc,    \* position of the thread inside Task.listen
  \* ---- the worker's stdin, one write() call at a time
  wrPc,        \* position of each caller thread inside print(..., file=stdin)
  wire,        \* what the write() calls put on the pipe, in order
  wgot,        \* what the worker's input() calls made of it, line by line
  \* ---- caller threads inside Service.start
  spPc,        \* position of each caller thread inside Service.start
  spawned,     \* the worker processes spawned (Popen calls made)
  threadSets,  \* the sets of stdout, stderr and monitor threads started
  \* ---- the script scopes of the worker's tasks
  scPc,        \* position of each worker task inside Task._run
  exports,     \* Worker.exports (its keys)
  binding,     \* the binding dict of each running task (its keys, besides
               \* "task" and the task's inputs)
  visible,     \* history: the binding each task's script started with
  atBind,      \* history: the names exported and auto-exported before then
  exported,    \* history: the names passed to task.export so far
  autoExported, \* history: the names the encoder auto-exported so far
  assigned,    \* history: the top-level names scripts assigned so far
  \* ---- the worker's receiver thread and main queue, line by line
  rstdin,      \* the request lines on the worker's stdin, not yet read
  rfed,        \* how many lines were written to it so far
  rcvPc,       \* the receiver thread: "read" | "returned" | "raised"
  rseen,       \* history: the lines the receiver has read, in order
  rtasks,      \* Worker.tasks (its keys)
  rcancel,     \* the tasks whose cancel_requested is set
  rrunning,    \* Worker.running
  mqueue,      \* Worker.queue
  mstarted,    \* history: the main-queue tasks in the order they were run
  \* ---- one message through encode, decode and Task._handle
  cPc,         \* "new" | "made" | "encoded" | "decoded" | "handled"
  cmod,        \* the codec in use: "message" (util/message.py) | "types"
  cworker,     \* the encoding process is a worker
  cmsg,        \* the message as it was made
  cjson,       \* the JSON text encode made of it
  cback,       \* the message decode made of the text
  coutputs,    \* Task.outputs of the task the message is for
  \* ---- one shared-memory block and the processes that use it
  shmUp,       \* each process: "none" | "up" | "exited"
  shmBlock,    \* the OS block: "none" | "exists" | "destroyed"
  shmHandle,   \* the SharedMemory object of each process
  shmTracked,  \* the processes whose resource tracker has the block
  shmWorkerMode, \* message._worker_mode in the worker process
  shmIsWorker, \* types._is_worker in the worker process
  shmDestroyedBy, \* history: who destroyed the block: <<process, how>>
  \* ---- one NDArray(dtype, shape) call
  ndPc,        \* "new" | "args" | "made" | "raised"
  ndDtype,     \* the dtype argument
  ndShape,     \* the shape argument
  ndSize,      \* the size of the region the NDArray created
  \* ---- the stdout pump, line by line
  slPump,      \* Service._stdout_loop: "read" | "returned"
  slTasks,     \* the tasks: status, outputs, error, listeners, registry
  slLines,     \* how many lines the pump has read
  slLast,      \* history: the line it read last
  slReport,    \* what the debug callback was told about that line
  \* ---- proxy operations
  proxied,     \* the tasks that proxy operations constructed
  \* ---- one script through Task._run
  runPc,       \* "none" | "new" | "parsed" | "executed" | "done" | "raised"
  runBody,     \* block.body as ast.parse made it: the statements' kinds
  runBlock,    \* block.body as line 121 compiles it
  runLast,     \* the kind of the statement `last` was made of, or "none"
  runExecuted, \* history: the statements exec() executed
  runResult,   \* "none" | "value": eval() gave the script a final value
  \* ---- task threads inside _ApposeJSONEncoder.default
  aePc,        \* position of each thread inside default()
  aeName,      \* its local var_name (the N of _appose_auto_N)
  aeTmp,       \* the value of _proxy_counter it loaded to increment
  aeCount,     \* how many objects it has auto-exported
  aeCounter,   \* message._proxy_counter
  aeExports,   \* Worker.exports: the object stored under each N, if any
  aeStored,    \* history: every <<N, object>> ever stored
  aeEmitted,   \* history: every worker_object sentinel, <<N, object>>
  \* ---- listeners that raise
  fnProc,      \* the worker process: "running" | "exited"
  fnOut,       \* the response lines on the worker's stdout, not yet read
  fnLines,     \* how many lines the worker has written
  fnCreated,   \* the Task objects constructed
  fnRegistry,  \* Service._tasks (its keys)
  fnStatus,    \* Task.status
  fnListeners, \* Task.listeners: how many are registered
  fnCalls,     \* history: the listener invocations made, <<listener, event>>
  fnRaised,    \* history: the invocations that raised, <<listener, event>>
  fnWait,      \* the thread inside Task.wait_for of each task
  fnPump,      \* Service._stdout_loop thread
  fnMon,       \* Service._monitor_loop thread
  \* ---- the calls made on one Service object
  lcProcess,   \* Service._process: "none" | "popen"
  lcStdin,     \* the client's end of its stdin: "none" | "open" | "closed"
  lcSpawned,   \* the worker processes spawned (Popen calls made)
  lcEntered,   \* the with-blocks entered and not yet left
  lcOps        \* history: the calls made, in order

clientVars == <<proc, stdinOpen, created, registry, status, error,
                listeners, events, calls, startPc, ncancel, waitPc, pump, mon>>
pipeVars == <<stdin, stdout>>
workerVars == <<wtasks, wt, wqueue, running, recv, jan, mainl>>
histVars == <<written, executes, rejected, atExit, cancelEarly>>
wireVars == <<wrPc, wire, wgot>>
spawnVars == <<spPc, spawned, threadSets>>
scopeVars == <<scPc, exports, binding, visible, atBind, exported,
               autoExported, assigned>>
recvVars == <<rstdin, rfed, rcvPc, rseen, rtasks, rcancel, rrunning, mqueue,
              mstarted>>
earlyVars == <<wireVars, spawnVars, scopeVars>>
codecVars == <<cPc, cmod, cworker, cmsg, cjson, cback, coutputs>>
shmVars == <<shmUp, shmBlock, shmHandle, shmTracked, shmWorkerMode,
             shmIsWorker, shmDestroyedBy>>
ndVars == <<ndPc, ndDtype, ndShape, ndSize>>
stdoutVars == <<slPump, slTasks, slLines, slLast, slReport>>
proxyVars == <<proxied>>
runVars == <<runPc, runBody, runBlock, runLast, runExecuted, runResult>>
autoVars == <<aePc, aeName, aeTmp, aeCount, aeCounter, aeExports, aeStored,
              aeEmitted>>
fanVars == <<fnProc, fnOut, fnLines, fnCreated, fnRegistry, fnStatus,
             fnListeners, fnCalls, fnRaised, fnWait, fnPump, fnMon>>
lcVars == <<lcProcess, lcStdin, lcSpawned, lcEntered, lcOps>>
lastVars == <<runVars, autoVars, fanVars, lcVars>>
oldVars == <<clientVars, pipeVars, workerVars, histVars, listenPc,
             wireVars, spawnVars, scopeVars, recvVars, codecVars, shmVars,
             ndVars, stdoutVars, proxyVars>>
notRunVars == <<autoVars, fanVars, lcVars>>
notAutoVars == <<runVars, fanVars, lcVars>>
notFanVars == <<runVars, autoVars, lcVars>>
notLcVars == <<runVars, autoVars, fanVars>>
laterVars == <<recvVars, codecVars, shmVars, ndVars, stdoutVars, proxyVars,
               lastVars>>
miniVars == <<earlyVars, laterVars>>
auxVars == <<listenPc, miniVars>>
engineVars == <<clientVars, pipeVars, workerVars, histVars, listenPc>>
vars == <<clientVars, pipeVars, workerVars, histVars, auxVars>>

\* ---------------------------------------------------------------- helpers
\* Task.queue: "main" names the worker's main thread, any other value or
\* None a dedicated thread.  A task's queue is fixed at construction and
\* read once, when its EXECUTE request is written: it is drawn there.
Queues == {"main", "none"}

\* The sum of the per-task counter f over tasks 1..n.
RECURSIVE SumTo(_, _)
SumTo(f, n) == IF n = 0 THEN 0 ELSE f[n] + SumTo(f, n - 1)

Request(type, t, q) == [type |-> type, task |-> t, queue |-> q]
Response(type, t, err) == [type |-> type, task |-> t, error |-> err]

\* A worker-side Task as python_worker.Task.__init__ leaves it.  Three
\* fields are history: queue, the queue of the task's EXECUTE request,
\* ranOn, the thread that entered Task._run ("main", "thread", or "none" so
\* far), and raised, whether the task's script raised an exception.
NewWorkerTask ==
  [finished |-> FALSE, cancel_requested |-> FALSE, thread |-> "none",
   pc |-> "new", ops |-> 0, queue |-> "none", ranOn |-> "none",
   raised |-> FALSE]

NoWorkerTask ==
  [finished |-> FALSE, cancel_requested |-> FALSE, thread |-> "none",
   pc |-> "absent", ops |-> 0, queue |-> "none", ranOn |-> "none",
   raised |-> FALSE]

IdlePump ==
  [pc |-> "read", task |-> 0, type |-> "none", error |-> NoError, i |-> 0]
IdleMonitor == [pc |-> "wait", size |-> 0, pos |-> 0, task |-> 0, i |-> 0]

Init ==
  /\ proc = "none"
  /\ stdinOpen = FALSE
  /\ created = {}
  /\ registry = {}
  /\ status = [t \in Tasks |-> INITIAL]
  /\ error = [t \in Tasks |-> NoError]
  /\ listeners = [t \in Tasks |-> 0]
  /\ events = [t \in Tasks |-> <<>>]
  /\ calls = [t \in Tasks |-> <<>>]
  /\ startPc = [t \in Tasks |-> "idle"]
  /\ ncancel = [t \in Tasks |-> 0]
  /\ waitPc = [t \in Tasks |-> "none"]
  /\ pump = IdlePump
  /\ mon = IdleMonitor
  /\ stdin = <<>>
  /\ stdout = <<>>
  /\ wtasks = {}
  /\ wt = [t \in Tasks |-> NoWorkerTask]
  /\ wqueue = <<>>
  /\ running = TRUE
  /\ recv = [pc |-> "read", task |-> 0]
  /\ jan = [pc |-> "sleep", dead |-> {}]
  /\ mainl = [pc |-> "poll", task |-> 0]
  /\ written = [t \in Tasks |-> <<>>]
  /\ executes = [t \in Tasks |-> 0]
  /\ rejected = [t \in Tasks |-> 0]
  /\ atExit = {}
  /\ cancelEarly = {}
  /\ listenPc = [t \in Tasks |-> "idle"]
  /\ wrPc = [w \in Writers |-> "idle"]
  /\ wire = <<>>
  /\ wgot = <<>>
  /\ spPc = [c \in Callers |-> "idle"]
  /\ spawned = 0
  /\ threadSets = 0
  /\ scPc = [w \in ScopeTasks |-> "new"]
  /\ exports = {}
  /\ binding = [w \in ScopeTasks |-> {}]
  /\ visible = [w \in ScopeTasks |-> {}]
  /\ atBind = [w \in ScopeTasks |-> [exp |-> {}, auto |-> {}]]
  /\ exported = {}
  /\ autoExported = {}
  /\ assigned = {}
  /\ rstdin = <<>>
  /\ rfed = 0
  /\ rcvPc = "read"
  /\ rseen = <<>>
  /\ rtasks = {}
  /\ rcancel = {}
  /\ rrunning = TRUE
  /\ mqueue = <<>>
  /\ mstarted = <<>>
  /\ cPc = "new"
  /\ cmod = "message"
  /\ cworker = FALSE
  /\ cmsg = [tag |-> "map", val |-> "", items |-> <<>>]
  /\ cjson = [tag |-> "map", val |-> "", items |-> <<>>]
  /\ cback = [tag |-> "map", val |-> "", items |-> <<>>]
  /\ coutputs = [tag |-> "map", val |-> "", items |-> <<>>]
  /\ shmUp = [p \in {"service", "worker"} |->
               IF p = "service" THEN "up" ELSE "none"]
  /\ shmBlock = "none"
  /\ shmHandle = [p \in {"service", "worker"} |->
       [map |-> "none", flag |-> FALSE, made |-> "none", disposed |-> FALSE,
        flagAt |-> FALSE]]
  /\ shmTracked = {}
  /\ shmWorkerMode = FALSE
  /\ shmIsWorker = FALSE
  /\ shmDestroyedBy = {}
  /\ ndPc = "new"
  /\ ndDtype = [text |-> <<>>, width |-> 0]
  /\ ndShape = <<>>
  /\ ndSize = 0
  /\ slPump = "read"
  /\ slTasks = [t \in 1..MaxStdoutTasks |->
       [status |-> INITIAL, registered |-> FALSE, outputs |-> FALSE,
        error |-> NoError, listeners |-> 0, called |-> 0]]
  /\ slLines = 0
  /\ slLast = [kind |-> "none", task |-> 0, type |-> "none"]
  /\ slReport = {}
  /\ proxied = {}
  /\ runPc = "none"
  /\ runBody = <<>>
  /\ runBlock = <<>>
  /\ runLast = "none"
  /\ runExecuted = <<>>
  /\ runResult = "none"
  /\ aePc = [th \in Encoders |-> "idle"]
  /\ aeName = [th \in Encoders |-> 0]
  /\ aeTmp = [th \in Encoders |-> 0]
  /\ aeCount = [th \in Encoders |-> 0]
  /\ aeCounter = 0
  /\ aeExports = {}
  /\ aeStored = {}
  /\ aeEmitted = {}
  /\ fnProc = "running"
  /\ fnOut = <<>>
  /\ fnLines = 0
  /\ fnCreated = {}
  /\ fnRegistry = {}
  /\ fnStatus = [t \in FanTasks |-> INITIAL]
  /\ fnListeners = [t \in FanTasks |-> 0]
  /\ fnCalls = [t \in FanTasks |-> {}]
  /\ fnRaised = [t \in FanTasks |-> {}]
  /\ fnWait = [t \in FanTasks |-> "none"]
  /\ fnPump = [pc |-> "read", task |-> 0, type |-> "none", i |-> 0]
  /\ fnMon = [pc |-> "wait", size |-> 0, pos |-> 0, task |-> 0, i |-> 0]
  /\ lcProcess = "none"
  /\ lcStdin = "none"
  /\ lcSpawned = 0
  /\ lcEntered = 0
  /\ lcOps = <<>>

\* ================================================================ client
\* ---------------------------------------------------------------- Service

\* Service.task: start() spawns the worker on the first call, then the Task
\* constructor registers the new task in Service._tasks.
ServiceTask(max) ==
  /\ Cardinality(created) < max
  /\ LET t == Cardinality(created) + 1 IN
       /\ created' = created \cup {t}
       /\ registry' = registry \cup {t}
  /\ proc' = IF proc = "none" THEN "running" ELSE proc
  /\ stdinOpen' = IF proc = "none" THEN TRUE ELSE stdinOpen
  /\ UNCHANGED <<auxVars, status, error, listeners, events, calls, startPc, ncancel,
                 waitPc, pump, mon, pipeVars, workerVars, histVars>>

\* A close() that joins the worker process before it returns.
ServiceCloseJoins ==
  /\ proc # "none"
  /\ stdinOpen
  /\ stdinOpen' = FALSE
  /\ proc' = "exited"
  /\ UNCHANGED <<auxVars, created, registry, status, error, listeners,
                 events, calls, startPc, ncancel, waitPc, pump, mon,
                 pipeVars, workerVars, histVars>>

\* Service.close: closes the client's end of the worker's stdin.
ServiceClose ==
  /\ proc # "none"
  /\ stdinOpen
  /\ stdinOpen' = FALSE
  /\ UNCHANGED <<auxVars, proc, created, registry, status, error, listeners,
                 events, calls, startPc, ncancel, waitPc, pump, mon,
                 pipeVars, workerVars, histVars>>

\* print(encoded, file=stdin, flush=True) succeeds when the pipe is open at
\* both ends; it raises ValueError on a closed file and BrokenPipeError
\* when the worker is gone.
CanWrite == stdinOpen /\ proc = "running"

\* ---------------------------------------------------------------- Task

\* The tasks on which start() has passed its check.
Started == {t \in Tasks : startPc[t] # "idle"}

\* The listen() calls made so far: the listeners appended, the calls whose
\* check passed and the calls that raised.
ListenCalls ==
  SumTo(listeners, Cardinality(Tasks))
    + Cardinality({t \in Tasks : listenPc[t] # "idle"})

\* A thread is inside `with self._cv:` of Task.listen on task t.  The lock
\* excludes the other `with self._cv:` blocks on the task (start, wait_for,
\* the notify_all of _handle and _crash); the status assignments and the
\* listener loops of _handle and _crash are made outside any lock.
CvHeld(t) == listenPc[t] = "append"

\* start() without its status check.
StartPassesAlways(s) == TRUE

\* Task.start, line 472: the check made under the lock.
StartPasses(s) == s = INITIAL

\* Task.start, lines 471-475: under the lock, check INITIAL and move to QUEUED.
\* The task of a proxy operation is not handed to the caller: only the
\* operation's wait_for() starts it.
TaskStart(t) ==
  /\ t \in created
  /\ t \notin proxied
  /\ ~CvHeld(t)
  /\ StartPasses(status[t])
  /\ startPc[t] # "write"
  /\ startPc[t] = "idle" => Cardinality(Started) < MaxStarted
  /\ status' = [status EXCEPT ![t] = QUEUED]
  /\ startPc' = [startPc EXCEPT ![t] = "write"]
  /\ UNCHANGED <<auxVars, proc, stdinOpen, created, registry, error, listeners,
                 events, calls, ncancel, waitPc, pump, mon, pipeVars,
                 workerVars, histVars>>

\* Task.start, line 473: any other status raises RuntimeError.
TaskStartRejected(t) ==
  /\ t \in created
  /\ ~StartPasses(status[t])
  /\ SumTo(rejected, Cardinality(Tasks)) < MaxRejected
  /\ rejected' = [rejected EXCEPT ![t] = @ + 1]
  /\ UNCHANGED <<auxVars, clientVars, pipeVars, workerVars, written, executes, atExit,
                 cancelEarly>>

\* Task._request(EXECUTE, ...), lines 552-558.
WriteExecute(t) ==
  /\ \E q \in Queues : stdin' = Append(stdin, Request(EXECUTE, t, q))
  /\ executes' = [executes EXCEPT ![t] = @ + 1]

\* Task.start, lines 477-478: outside the lock, write the EXECUTE request.
TaskStartWrite(t) ==
  /\ startPc[t] = "write"
  /\ IF CanWrite
       THEN /\ WriteExecute(t)
            /\ startPc' = [startPc EXCEPT ![t] = "done"]
       ELSE /\ startPc' = [startPc EXCEPT ![t] = "raised"]
            /\ UNCHANGED <<stdin, executes>>
  /\ UNCHANGED <<auxVars, proc, stdinOpen, created, registry, status, error,
                 listeners, events, calls, ncancel, waitPc, pump, mon,
                 stdout, workerVars, written, rejected, atExit, cancelEarly>>

\* Task.listen, lines 483-488: under the lock, the status is checked; any
\* status but INITIAL raises RuntimeError and changes nothing.
TaskListen(t) ==
  /\ t \in created
  /\ listenPc[t] = "idle"
  /\ ListenCalls < MaxListeners
  /\ listenPc' = [listenPc EXCEPT ![t] =
       IF status[t] = INITIAL THEN "append" ELSE "raised"]
  /\ UNCHANGED <<clientVars, pipeVars, workerVars, histVars, miniVars>>

\* Task.listen, line 490: still under the lock, the listener is appended.
TaskListenAppend(t) ==
  /\ listenPc[t] = "append"
  /\ listeners' = [listeners EXCEPT ![t] = @ + 1]
  /\ listenPc' = [listenPc EXCEPT ![t] = "idle"]
  /\ UNCHANGED <<proc, stdinOpen, created, registry, status, error,
                 events, calls, startPc, ncancel, waitPc, pump, mon,
                 pipeVars, workerVars, histVars, miniVars>>

\* A cancel() that writes an EXECUTE request.
CancelRequestAsExecute(t) == Request(EXECUTE, t, "none")

\* Task.cancel, line 546: the request that _request(CANCEL, {}) encodes, the
\* task's uuid and the request type, with no arguments.
CancelRequest(t) == Request(CANCEL, t, "none")

\* Task.cancel: _request(CANCEL, {}) writes the request, or raises when the
\* pipe cannot be written to; it assigns nothing.
TaskCancel(t) ==
  /\ t \in created
  /\ SumTo(ncancel, Cardinality(Tasks)) < MaxCancels
  /\ ncancel' = [ncancel EXCEPT ![t] = @ + 1]
  /\ stdin' = IF CanWrite THEN Append(stdin, CancelRequest(t)) ELSE stdin
  /\ cancelEarly' = IF CanWrite /\ startPc[t] = "done" /\ status[t] = QUEUED
                      THEN cancelEarly \cup {t} ELSE cancelEarly
  /\ UNCHANGED <<auxVars, proc, stdinOpen, created, registry, status, error,
                 listeners, events, calls, startPc, waitPc, pump, mon,
                 stdout, workerVars, written, executes, rejected, atExit>>

\* Task.wait_for, lines 502-506: in INITIAL it calls start(), which moves
\* the task to QUEUED; otherwise it goes on to read the status.
TaskWaitFor(t) ==
  /\ t \in created
  /\ waitPc[t] = "none"
  /\ ~CvHeld(t)
  /\ Cardinality({u \in Tasks : waitPc[u] # "none"}) < MaxWaits
  /\ IF status[t] = INITIAL
       THEN /\ startPc[t] # "write"
            /\ startPc[t] = "idle" => Cardinality(Started) < MaxStarted
            /\ status' = [status EXCEPT ![t] = QUEUED]
            /\ startPc' = [startPc EXCEPT ![t] = "write"]
            /\ waitPc' = [waitPc EXCEPT ![t] = "starting"]
       ELSE /\ waitPc' = [waitPc EXCEPT ![t] =
                 IF status[t] \in {QUEUED, RUNNING} THEN "waiting" ELSE "result"]
            /\ UNCHANGED <<status, startPc>>
  /\ UNCHANGED <<auxVars, proc, stdinOpen, created, registry, error, listeners,
                 events, calls, ncancel, pump, mon, pipeVars,
                 workerVars, histVars>>

\* Task.wait_for, lines 504-512 once its start() call is over: the error of
\* a failed write propagates; otherwise wait unless already finished.
TaskWaitCheck(t) ==
  /\ waitPc[t] = "starting"
  /\ startPc[t] \in {"done", "raised"}
  /\ waitPc' = [waitPc EXCEPT ![t] =
       IF startPc[t] = "raised" THEN "raisedOther"
       ELSE IF status[t] \in {QUEUED, RUNNING} THEN "waiting" ELSE "result"]
  /\ UNCHANGED <<auxVars, proc, stdinOpen, created, registry, status, error,
                 listeners, events, calls, startPc, ncancel, pump, mon,
                 pipeVars, workerVars, histVars>>

\* Task._raise_if_failed: what wait_for does with the status it reads.
WaitOutcome(s) ==
  IF s \in {FAILED, CANCELED, CRASHED} THEN "raisedTaskException"
                                       ELSE "returned"

\* Task.wait_for, lines 508-510 and 515-516.
TaskWaitResult(t) ==
  /\ waitPc[t] \in {"result", "woken"}
  /\ waitPc' = [waitPc EXCEPT ![t] = WaitOutcome(status[t])]
  /\ UNCHANGED <<auxVars, proc, stdinOpen, created, registry, status, error,
                 listeners, events, calls, startPc, ncancel, pump, mon,
                 pipeVars, workerVars, histVars>>

\* A listener loop that runs over the n listeners last to first.
ListenerAtReversed(n, i) == n + 1 - i

\* The listener loop of Task._handle and Task._crash, `for listener in
\* self.listeners`: the listener its i-th step calls, which is the i-th
\* registered.
ListenerAt(n, i) == i

\* One step of the thread th (the pump's or the monitor's record) that fans
\* the event of type `type` out to the listeners of task t.  Step 0 makes
\* the event, step i calls one listener; done tells that the loop is over.
FanoutStep(th, t, type) ==
  /\ events' = IF th.i = 0 THEN [events EXCEPT ![t] = Append(@, type)]
                           ELSE events
  /\ calls' = IF th.i = 0 THEN calls
               ELSE [calls EXCEPT ![t] =
                       Append(@, <<ListenerAt(listeners[t], th.i), type>>)]

\* The listener loop of thread th on task t has made its last step.
FanoutDone(th, t) == th.i = listeners[t]

\* cv.notify_all(): every thread blocked in cv.wait() wakes.
NotifyAll(w) == IF w = "waiting" THEN "woken" ELSE w

\* ---------------------------------------------------------------- stdout pump

\* Service._stdout_loop, lines 286-310: read a line, look the task up.
PumpRead ==
  /\ proc # "none"
  /\ pump.pc = "read"
  /\ \/ /\ stdout # <<>>
        /\ stdout' = Tail(stdout)
        /\ LET r == Head(stdout) IN
             pump' = IF r.task \in registry
                       THEN [pc |-> "apply", task |-> r.task,
                             type |-> r.type, error |-> r.error, i |-> 0]
                       ELSE pump
     \/ /\ stdout = <<>>
        /\ proc = "exited"
        /\ pump' = [pump EXCEPT !.pc = "done"]
        /\ UNCHANGED stdout
  /\ UNCHANGED <<auxVars, proc, stdinOpen, created, registry, status, error,
                 listeners, events, calls, startPc, ncancel, waitPc, mon,
                 stdin, workerVars, histVars>>

\* Task._handle, lines 568-585: the status the response type leads to.
HandleStatus(type, old) ==
  CASE type = LAUNCH -> RUNNING
    [] type = UPDATE -> old
    [] type = COMPLETION -> COMPLETE
    [] type = CANCELATION -> CANCELED
    [] type = FAILURE -> FAILED

\* Task._handle, lines 562-590: the state change.
PumpApply ==
  /\ pump.pc = "apply"
  /\ LET t == pump.task IN
       /\ status' = [status EXCEPT ![t] = HandleStatus(pump.type, @)]
       /\ registry' = IF pump.type \in {COMPLETION, CANCELATION, FAILURE}
                        THEN registry \ {t} ELSE registry
       /\ error' = IF pump.type = FAILURE
                     THEN [error EXCEPT ![t] = pump.error] ELSE error
  /\ pump' = [pump EXCEPT !.pc = "deliver"]
  /\ UNCHANGED <<auxVars, proc, stdinOpen, created, listeners, events, calls,
                 startPc, ncancel, waitPc, mon, pipeVars, workerVars,
                 histVars>>

\* Task._handle, lines 592-602: one step of the fan-out of the event;
\* after the last one the waiters are woken if the status is terminal.
PumpDeliver ==
  /\ pump.pc = "deliver"
  /\ LET t == pump.task IN
       /\ FanoutStep(pump, t, pump.type)
       /\ IF FanoutDone(pump, t)
            THEN /\ waitPc' = IF is_finished(status[t])
                                THEN [waitPc EXCEPT ![t] = NotifyAll(@)]
                                ELSE waitPc
                 /\ pump' = IdlePump
            ELSE /\ pump' = [pump EXCEPT !.i = @ + 1]
                 /\ UNCHANGED waitPc
  /\ UNCHANGED <<auxVars, proc, stdinOpen, created, registry, status, error,
                 listeners, startPc, ncancel, mon, pipeVars, workerVars,
                 histVars>>

\* ---------------------------------------------------------------- monitor

\* The entries of the dict after position pos, in insertion order.
Remaining(reg, pos) == {t \in reg : t > pos}
Min(S) == CHOOSE x \in S : \A y \in S : x <= y

\* The step of the loop `for task in self._tasks.values()` that the
\* iterator's next() leads to: the next entry, or the end of the loop.
MonitorStep(m, reg) ==
  IF Remaining(reg, m.pos) # {}
    THEN [m EXCEPT !.pc = "crash",
                   !.task = Min(Remaining(reg, m.pos)),
                   !.pos = Min(Remaining(reg, m.pos))]
    ELSE [m EXCEPT !.pc = "clear", !.task = 0]

\* Service._monitor_loop, lines 336-351: the process has exited; the loop
\* over self._tasks.values() starts.  The iterator remembers the size of
\* the dict; creating it and its first next() are not interrupted.
MonitorWake ==
  /\ mon.pc = "wait"
  /\ proc = "exited"
  /\ mon' = MonitorStep([IdleMonitor EXCEPT !.size = Cardinality(registry)],
                        registry)
  /\ UNCHANGED <<auxVars, proc, stdinOpen, created, registry, status, error,
                 listeners, events, calls, startPc, ncancel, waitPc, pump,
                 pipeVars, workerVars, histVars>>

\* Service._monitor_loop, line 351: the iterator's next() after a task was
\* crashed.  A dict whose size changed since the loop began raises
\* RuntimeError, which ends the monitor thread.
MonitorNext ==
  /\ mon.pc = "next"
  /\ mon' = IF Cardinality(registry) # mon.size
              THEN [mon EXCEPT !.pc = "dead"]
              ELSE MonitorStep(mon, registry)
  /\ UNCHANGED <<auxVars, proc, stdinOpen, created, registry, status, error,
                 listeners, events, calls, startPc, ncancel, waitPc, pump,
                 pipeVars, workerVars, histVars>>

\* Task._crash: the status becomes CRASHED and the CRASH event is fanned
\* out, one step at a time, outside any lock; after the last step the lock
\* is taken (lines 609-610) and the waiters are woken.  The notify is a
\* step of its own when a thread is blocked in wait_for or holds the lock;
\* with no thread to wake it is made with the last step of the fan-out.
MonitorCrash ==
  /\ mon.pc \in {"crash", "notify"}
  /\ mon.pc = "notify" => ~CvHeld(mon.task)
  /\ LET t == mon.task IN
       IF mon.pc = "notify"
         THEN /\ waitPc' = [waitPc EXCEPT ![t] = NotifyAll(@)]
              /\ mon' = [mon EXCEPT !.pc = "next", !.task = 0, !.i = 0]
              /\ UNCHANGED <<status, events, calls>>
         ELSE /\ status' = [status EXCEPT ![t] =
                              IF mon.i = 0 THEN CRASHED ELSE @]
              /\ FanoutStep(mon, t, CRASH)
              /\ IF FanoutDone(mon, t) /\ ~CvHeld(t)
                      /\ waitPc[t] # "waiting"
                   THEN /\ waitPc' = [waitPc EXCEPT ![t] = NotifyAll(@)]
                        /\ mon' = [mon EXCEPT !.pc = "next", !.task = 0,
                                              !.i = 0]
                   ELSE /\ mon' = IF FanoutDone(mon, t)
                                    THEN [mon EXCEPT !.pc = "notify"]
                                    ELSE [mon EXCEPT !.i = @ + 1]
                        /\ UNCHANGED waitPc
  /\ UNCHANGED <<auxVars, proc, stdinOpen, created, registry, error, listeners,
                 startPc, ncancel, pump, pipeVars, workerVars, histVars>>

\* Service._monitor_loop, line 354.
MonitorClear ==
  /\ mon.pc = "clear"
  /\ registry' = {}
  /\ mon' = [mon EXCEPT !.pc = "done"]
  /\ UNCHANGED <<auxVars, proc, stdinOpen, created, status, error, listeners,
                 events, calls, startPc, ncancel, waitPc, pump, pipeVars,
                 workerVars, histVars>>

\* ================================================================ worker
WorkerUp == proc = "running"

\* ---------------------------------------------------------------- receiver

\* A receiver that gives every task a thread of its own.
OnMainQueueNever(q) == FALSE

\* Worker._process_input, line 219: the test that sends a task to the main
\* thread's queue; any other queue, or none, gets a thread of its own.
OnMainQueue(q) == q = "main"

\* A CANCEL request that ends the script.
OnCancelStops(w) == [w EXCEPT !.cancel_requested = TRUE, !.pc = "done"]

\* Worker._process_input, line 233: what a CANCEL request does to the task
\* it names.
OnCancel(w) == [w EXCEPT !.cancel_requested = TRUE]

\* Worker._process_input, lines 202-233: one request line, or EOF.  A CANCEL
\* request for an unknown uuid prints a diagnostic to stderr and changes
\* nothing.
ReceiverRead ==
  /\ WorkerUp
  /\ recv.pc = "read"
  /\ \/ /\ stdin # <<>>
        /\ stdin' = Tail(stdin)
        /\ LET req == Head(stdin)
               t == req.task
           IN
             IF req.type = EXECUTE
               THEN /\ wtasks' = wtasks \cup {t}
                    /\ IF OnMainQueue(req.queue)
                         THEN /\ wt' = [wt EXCEPT ![t] =
                                   [NewWorkerTask EXCEPT !.queue = req.queue]]
                              /\ wqueue' = Append(wqueue, t)
                              /\ UNCHANGED recv
                         ELSE /\ wt' = [wt EXCEPT ![t] =
                                   [NewWorkerTask EXCEPT !.thread = "new",
                                                         !.queue = req.queue]]
                              /\ recv' = [pc |-> "start", task |-> t]
                              /\ UNCHANGED wqueue
               ELSE /\ wt' = IF t \in wtasks
                               THEN [wt EXCEPT ![t] = OnCancel(@)]
                               ELSE wt
                    /\ UNCHANGED <<wtasks, wqueue, recv>>
        /\ UNCHANGED running
     \/ /\ stdin = <<>>
        /\ ~stdinOpen
        /\ running' = FALSE
        /\ recv' = [recv EXCEPT !.pc = "done"]
        /\ UNCHANGED <<stdin, wtasks, wt, wqueue>>
  /\ UNCHANGED <<auxVars, clientVars, stdout, jan, mainl, histVars>>

\* Worker._process_input, line 226: task._thread.start().
ReceiverStartThread ==
  /\ WorkerUp
  /\ recv.pc = "start"
  /\ wt' = [wt EXCEPT ![recv.task].thread = "alive"]
  /\ recv' = [pc |-> "read", task |-> 0]
  /\ UNCHANGED <<auxVars, clientVars, pipeVars, wtasks, wqueue, running, jan, mainl,
                 histVars>>

\* ---------------------------------------------------------------- Task

\* Task._respond: the finished flag it leaves and the lines it prints, from
\* the flag before the call, the response and whether the response encodes.
Respond(fin, t, type, err, encodes) ==
  LET already_terminated == is_terminal(type) /\ fin
      fin1 == fin \/ is_terminal(type)
  IN IF encodes
       THEN [finished |-> fin1, out |-> <<Response(type, t, err)>>]
     ELSE IF already_terminated
       THEN [finished |-> fin1, out |-> <<>>]
     ELSE [finished |-> TRUE, out |-> <<Response(FAILURE, t, Traceback)>>]

\* The types of a sequence of responses.
Types(out) == [i \in 1..Len(out) |-> out[i].type]

\* print(..., flush=True) of the lines of one _respond call.
Emit(t, r) ==
  /\ stdout' = stdout \o r.out
  /\ written' = [written EXCEPT ![t] = @ \o Types(r.out)]

\* The thread that runs a task's script is executing.
Executing(t) ==
  /\ WorkerUp
  /\ \/ wt[t].thread = "alive"
     \/ mainl.pc = "run" /\ mainl.task = t

\* The thread that is executing Task._run of task t: the main thread when
\* Worker.run called it (line 197), else the thread made for the task.
RunsOn(t) == IF mainl.pc = "run" /\ mainl.task = t THEN "main" ELSE "thread"

\* Task._run returns: a dedicated thread ends, the main loop polls again.
\* exc tells that it was the script that raised.
Returned(t, fin, exc) ==
  /\ wt' = [wt EXCEPT ![t].pc = "done", ![t].finished = fin,
                      ![t].ranOn = RunsOn(t), ![t].raised = exc,
                      ![t].thread = IF @ = "alive" THEN "dead" ELSE @]
  /\ mainl' = IF mainl.pc = "run" /\ mainl.task = t
                THEN [pc |-> "poll", task |-> 0] ELSE mainl

\* Task._run, lines 86-93: compose the bindings, report the launch.
TaskRunLaunch(t) ==
  /\ Executing(t)
  /\ wt[t].pc = "new"
  /\ LET r == Respond(wt[t].finished, t, LAUNCH, NoError, TRUE) IN
       /\ Emit(t, r)
       /\ wt' = [wt EXCEPT ![t].pc = "script", ![t].finished = r.finished,
                           ![t].ranOn = RunsOn(t)]
  /\ UNCHANGED <<auxVars, clientVars, stdin, wtasks, wqueue, running, recv, jan,
                 mainl, executes, rejected, atExit, cancelEarly>>

\* Task._run, lines 88-90 and 133-134: binding.update(self._inputs) raises
\* when the decoded inputs are no mapping (an inputs map that carries an
\* appose_type key decodes to a SharedMemory or an NDArray); fail(traceback)
\* follows, and no launch is reported.
TaskRunBindFails(t) ==
  /\ Executing(t)
  /\ wt[t].pc = "new"
  /\ LET r == Respond(wt[t].finished, t, FAILURE, Traceback, TRUE) IN
       /\ Emit(t, r)
       /\ Returned(t, r.finished, FALSE)
  /\ UNCHANGED <<auxVars, clientVars, stdin, wtasks, wqueue, running, recv, jan,
                 executes, rejected, atExit, cancelEarly>>

\* The script calls task.update(...), task.cancel() or task.fail(error).
TaskScriptCall(t) ==
  /\ Executing(t)
  /\ wt[t].pc = "script"
  /\ wt[t].ops < MaxScriptOps
  /\ \E r \in {Respond(wt[t].finished, t, UPDATE, NoError, TRUE),
               Respond(wt[t].finished, t, UPDATE, NoError, FALSE),
               Respond(wt[t].finished, t, CANCELATION, NoError, TRUE),
               Respond(wt[t].finished, t, FAILURE, ScriptError, TRUE)} :
       /\ Emit(t, r)
       /\ wt' = [wt EXCEPT ![t].ops = @ + 1, ![t].finished = r.finished]
  /\ UNCHANGED <<auxVars, clientVars, stdin, wtasks, wqueue, running, recv, jan,
                 mainl, executes, rejected, atExit, cancelEarly>>

\* Task._run, lines 133-134: the script raises; fail(traceback).
TaskScriptRaise(t) ==
  /\ Executing(t)
  /\ wt[t].pc = "script"
  /\ LET r == Respond(wt[t].finished, t, FAILURE, Traceback, TRUE) IN
       /\ Emit(t, r)
       /\ Returned(t, r.finished, TRUE)
  /\ UNCHANGED <<auxVars, clientVars, stdin, wtasks, wqueue, running, recv, jan,
                 executes, rejected, atExit, cancelEarly>>

\* Task._run, line 132: the script ends; _report_completion.
TaskScriptEnd(t) ==
  /\ Executing(t)
  /\ wt[t].pc = "script"
  /\ \E encodes \in BOOLEAN :
       LET r == Respond(wt[t].finished, t, COMPLETION, NoError, encodes) IN
         /\ Emit(t, r)
         /\ Returned(t, r.finished, FALSE)
  /\ UNCHANGED <<auxVars, clientVars, stdin, wtasks, wqueue, running, recv, jan,
                 executes, rejected, atExit, cancelEarly>>

\* ---------------------------------------------------------------- main loop

\* Worker.run, line 196, `task = self.queue.pop()`: list.pop() takes the
\* last element of the list.
Popped(q) == q[Len(q)]
AfterPop(q) == SubSeq(q, 1, Len(q) - 1)

\* Worker.run, lines 191-197.
MainLoop ==
  /\ WorkerUp
  /\ mainl.pc = "poll"
  /\ IF ~running
       THEN /\ mainl' = [pc |-> "done", task |-> 0]
            /\ UNCHANGED wqueue
       ELSE /\ wqueue # <<>>
            /\ mainl' = [pc |-> "run", task |-> Popped(wqueue)]
            /\ wqueue' = AfterPop(wqueue)
  /\ UNCHANGED <<auxVars, clientVars, pipeVars, wtasks, wt, running, recv, jan,
                 histVars>>

\* ---------------------------------------------------------------- janitor

\* Worker._cleanup_threads, lines 238-242: the tasks whose thread is not alive.
Dead == {t \in wtasks : wt[t].thread \in {"new", "dead"}}

\* Worker._cleanup_threads, line 236: the loop condition.
JanitorLoop == IF running THEN "sleep" ELSE "done"

\* Worker._cleanup_threads, lines 237-242: wake up and collect the dead.
JanitorSweep ==
  /\ WorkerUp
  /\ jan.pc = "sleep"
  /\ jan' = IF Dead # {} THEN [pc |-> "reap", dead |-> Dead]
                         ELSE [pc |-> JanitorLoop, dead |-> {}]
  /\ UNCHANGED <<auxVars, clientVars, pipeVars, wtasks, wt, wqueue, running, recv,
                 mainl, histVars>>

\* The janitor is done with the first of its dead tasks and goes on to the
\* next one, or back to the loop condition.
JanitorNext ==
  IF Cardinality(jan.dead) = 1 THEN [pc |-> JanitorLoop, dead |-> {}]
  ELSE [pc |-> "reap", dead |-> jan.dead \ {Min(jan.dead)}]

\* Worker._cleanup_threads, lines 243-245: reap one dead task; pop it from
\* the task map and read its _finished flag.
JanitorReap ==
  /\ WorkerUp
  /\ jan.pc = "reap"
  /\ LET t == Min(jan.dead) IN
       /\ wtasks' = wtasks \ {t}
       /\ jan' = IF wt[t].finished THEN JanitorNext
                                   ELSE [jan EXCEPT !.pc = "fail"]
  /\ UNCHANGED <<auxVars, clientVars, pipeVars, wt, wqueue, running, recv,
                 mainl, histVars>>

\* Worker._cleanup_threads, line 248: task.fail("thread death"), on the
\* strength of the flag read before; the janitor holds no lock, and the
\* task's thread may have run since.
JanitorFail ==
  /\ WorkerUp
  /\ jan.pc = "fail"
  /\ LET t == Min(jan.dead)
         r == Respond(wt[t].finished, t, FAILURE, ThreadDeath, TRUE)
     IN
       /\ Emit(t, r)
       /\ wt' = [wt EXCEPT ![t].finished = r.finished]
       /\ jan' = JanitorNext
  /\ UNCHANGED <<auxVars, clientVars, stdin, wtasks, wqueue, running, recv,
                 mainl, executes, rejected, atExit, cancelEarly>>

\* ---------------------------------------------------------------- process

\* The process is gone: so are its threads, its memory and what was left
\* unread in its stdin.  What it wrote to stdout stays readable.
ProcessGone ==
  /\ proc' = "exited"
  /\ stdin' = <<>>
  /\ wtasks' = {}
  /\ wt' = [t \in Tasks |-> NoWorkerTask]
  /\ wqueue' = <<>>
  /\ running' = FALSE
  /\ recv' = [pc |-> "done", task |-> 0]
  /\ jan' = [pc |-> "done", dead |-> {}]
  /\ mainl' = [pc |-> "done", task |-> 0]
  /\ atExit' = registry
  /\ UNCHANGED <<auxVars, stdinOpen, created, registry, status, error, listeners,
                 events, calls, startPc, ncancel, waitPc, pump, mon, stdout,
                 written, executes, rejected, cancelEarly>>

\* The worker process ends once its last non-daemon thread has ended.
WorkerExit ==
  /\ WorkerUp
  /\ recv.pc = "done"
  /\ mainl.pc = "done"
  /\ jan.pc = "done"
  /\ \A t \in Tasks : wt[t].thread # "alive"
  /\ ProcessGone

\* The worker process is killed or crashes, at any point.
WorkerKill ==
  /\ WorkerUp
  /\ ProcessGone

\* ================================================================ system
\* The engine: the service with its pump and monitor threads, the worker
\* with its receiver, janitor, main loop and task threads, and the caller
\* operations that create and start tasks and close the service.
Engine(max) ==
  \/ ServiceTask(max)
  \/ ServiceClose
  \/ \E t \in Tasks : TaskStart(t)
  \/ \E t \in Tasks : TaskStartWrite(t)
  \/ PumpRead
  \/ PumpApply
  \/ PumpDeliver
  \/ MonitorWake
  \/ MonitorNext
  \/ MonitorCrash
  \/ MonitorClear
  \/ ReceiverRead
  \/ ReceiverStartThread
  \/ \E t \in Tasks : TaskRunLaunch(t)
  \/ \E t \in Tasks : TaskRunBindFails(t)
  \/ \E t \in Tasks : TaskScriptCall(t)
  \/ \E t \in Tasks : TaskScriptRaise(t)
  \/ \E t \in Tasks : TaskScriptEnd(t)
  \/ MainLoop
  \/ JanitorSweep
  \/ JanitorReap
  \/ JanitorFail
  \/ WorkerExit
  \/ WorkerKill

\* The engine alone: callers that construct tasks and start them.
Next == Engine(MaxTasks)

Spec == Init /\ [][Next]_vars

\* The engine with its threads scheduled: each thread of the worker and of
\* the service that can take a step takes one, every script comes to its end
\* and the worker process ends when its last thread has.  Nothing obliges
\* the callers to act, nor the worker to be killed.
SpecFair ==
  /\ Spec
  /\ WF_vars(ReceiverRead)
  /\ WF_vars(ReceiverStartThread)
  /\ \A t \in Tasks : WF_vars(TaskRunLaunch(t))
  /\ \A t \in Tasks : WF_vars(TaskScriptEnd(t))
  /\ WF_vars(MainLoop)
  /\ WF_vars(JanitorSweep)
  /\ WF_vars(JanitorReap)
  /\ WF_vars(JanitorFail)
  /\ WF_vars(WorkerExit)
  /\ WF_vars(PumpRead)
  /\ WF_vars(PumpApply)
  /\ WF_vars(PumpDeliver)

\* ================================================================ the wire
\* Task._request, line 558: print(encoded, file=stdin, flush=True).  print
\* makes two write() calls on the file, one for the text and one for the
\* end "\n", and Task._request takes no lock around them.  In the engine
\* above a request is appended to stdin whole; here the callers' write()
\* calls are the steps.

\* A caller thread's first write(): the encoded request, which has no
\* newline in it.  The text of writer w's request is written w.
WireWriteText(w) ==
  /\ CanWrite
  /\ wrPc[w] = "idle"
  /\ wire' = Append(wire, w)
  /\ wrPc' = [wrPc EXCEPT ![w] = "end"]
  /\ UNCHANGED <<engineVars, laterVars, spawnVars, scopeVars, wgot>>

\* The thread's second write(): the newline.
WireWriteEnd(w) ==
  /\ CanWrite
  /\ wrPc[w] = "end"
  /\ wire' = Append(wire, Newline)
  /\ wrPc' = [wrPc EXCEPT ![w] = "done"]
  /\ UNCHANGED <<engineVars, laterVars, spawnVars, scopeVars, wgot>>

\* The position of the first newline in a sequence that has one.
FirstNewline(s) ==
  CHOOSE k \in 1..Len(s) :
    s[k] = Newline /\ \A j \in 1..(k - 1) : s[j] # Newline

\* Worker._process_input, lines 205-211, on one line of input: an empty line
\* ends the worker, the text of one request decodes to the request, anything
\* else makes json.loads raise, which ends the receiver thread.
Decoded(line) ==
  IF line = <<>> THEN "shutdown"
  ELSE IF Len(line) = 1 THEN "request"
  ELSE "error"

\* The receiver is still reading: every line so far was a request.
Receiving == \A k \in 1..Len(wgot) : Decoded(wgot[k]) = "request"

\* Worker._process_input, line 202: input() returns the text up to the next
\* newline.
WireReadLine ==
  /\ WorkerUp
  /\ Receiving
  /\ \E k \in 1..Len(wire) : wire[k] = Newline
  /\ LET k == FirstNewline(wire) IN
       /\ wgot' = Append(wgot, SubSeq(wire, 1, k - 1))
       /\ wire' = SubSeq(wire, k + 1, Len(wire))
  /\ UNCHANGED <<engineVars, laterVars, spawnVars, scopeVars, wrPc>>

\* The service, its callers' write() calls and the worker's input() calls.
NextWire ==
  \/ ServiceTask(MaxTasks)
  \/ \E w \in Writers : WireWriteText(w)
  \/ \E w \in Writers : WireWriteEnd(w)
  \/ WireReadLine

SpecWire == Init /\ [][NextWire]_vars

\* ================================================================ the spawn
\* Service.start, lines 125-148, one statement at a time: the method takes
\* no lock.  In the engine above Service.task() is one step of one caller;
\* here several threads are inside start().

\* Service.start, lines 125-127: `if self._process is not None: return`.
SpawnCheck(c) ==
  /\ spPc[c] = "idle"
  /\ spPc' = [spPc EXCEPT ![c] = IF proc # "none" THEN "returned" ELSE "popen"]
  /\ UNCHANGED <<engineVars, laterVars, wireVars, scopeVars, spawned, threadSets>>

\* Service.start, lines 130-136: self._process = subprocess.Popen(...).
SpawnPopen(c) ==
  /\ spPc[c] = "popen"
  /\ proc' = "running"
  /\ stdinOpen' = TRUE
  /\ spawned' = spawned + 1
  /\ spPc' = [spPc EXCEPT ![c] = "threads"]
  /\ UNCHANGED <<created, registry, status, error, listeners, events, calls,
                 startPc, ncancel, waitPc, pump, mon, pipeVars, workerVars,
                 histVars, listenPc, wireVars, scopeVars, laterVars,
                 threadSets>>

\* Service.start, lines 137-148: the stdout, stderr and monitor threads are
\* made and started.
SpawnThreads(c) ==
  /\ spPc[c] = "threads"
  /\ threadSets' = threadSets + 1
  /\ spPc' = [spPc EXCEPT ![c] = "done"]
  /\ UNCHANGED <<engineVars, laterVars, wireVars, scopeVars, spawned>>

\* Caller threads that call start() on one service.
NextSpawn ==
  \/ \E c \in Callers : SpawnCheck(c)
  \/ \E c \in Callers : SpawnPopen(c)
  \/ \E c \in Callers : SpawnThreads(c)

SpecSpawn == Init /\ [][NextSpawn]_vars

\* ================================================================ the scopes
\* python_worker.Task._run, lines 86-123, Task.export and the encoder's
\* auto-export, for the tasks of one worker.  The tasks may run at the same
\* time, each on its thread.  No init script is given (APPOSE_INIT_SCRIPT
\* is unset), so Worker.exports starts empty.

\* Task._run, lines 86-90: the binding dict is made anew for the task, from
\* the task handle, the exports of the moment and the inputs.
ScopeBind(w) ==
  /\ scPc[w] = "new"
  /\ binding' = [binding EXCEPT ![w] = exports]
  /\ visible' = [visible EXCEPT ![w] = exports]
  /\ atBind' = [atBind EXCEPT ![w] = [exp |-> exported, auto |-> autoExported]]
  /\ scPc' = [scPc EXCEPT ![w] = "run"]
  /\ UNCHANGED <<engineVars, laterVars, wireVars, spawnVars, exports, exported,
                 autoExported, assigned>>

\* An assignment shared with later tasks, as if the script were executed in
\* Worker.exports itself.
ScopeAfterAssignShared(b, e, n) == [binding |-> b \cup {n}, exports |-> e \cup {n}]

\* Task._run, lines 118-121: exec(..., _globals, binding) with _globals the
\* binding: a top-level assignment of the script lands in the task's own
\* binding dict.
ScopeAfterAssign(b, e, n) == [binding |-> b \cup {n}, exports |-> e]

\* The script assigns the top-level name n.
ScopeAssign(w, n) ==
  /\ scPc[w] = "run"
  /\ LET after == ScopeAfterAssign(binding[w], exports, n) IN
       /\ binding' = [binding EXCEPT ![w] = after.binding]
       /\ exports' = after.exports
  /\ assigned' = assigned \cup {n}
  /\ UNCHANGED <<engineVars, laterVars, wireVars, spawnVars, scPc, visible, atBind,
                 exported, autoExported>>

\* Task.export, lines 51-52: self._worker.exports.update(kwargs).
ScopeExport(w, n) ==
  /\ scPc[w] = "run"
  /\ exports' = exports \cup {n}
  /\ exported' = exported \cup {n}
  /\ UNCHANGED <<engineVars, laterVars, wireVars, spawnVars, scPc, binding, visible,
                 atBind, autoExported, assigned>>

\* message.encode in worker mode, message.py lines 53-67, reached from
\* Task._respond: a value of an update or of the outputs that JSON cannot
\* encode is stored in Worker.exports under a fresh `_appose_auto_{N}`.
ScopeAutoExport(w, n) ==
  /\ scPc[w] = "run"
  /\ exports' = exports \cup {n}
  /\ autoExported' = autoExported \cup {n}
  /\ UNCHANGED <<engineVars, laterVars, wireVars, spawnVars, scPc, binding, visible,
                 atBind, exported, assigned>>

\* Task._run returns: the binding dict is dropped with the frame.
ScopeEnd(w) ==
  /\ scPc[w] = "run"
  /\ scPc' = [scPc EXCEPT ![w] = "done"]
  /\ binding' = [binding EXCEPT ![w] = {}]
  /\ UNCHANGED <<engineVars, laterVars, wireVars, spawnVars, exports, visible, atBind,
                 exported, autoExported, assigned>>

\* The tasks of one worker and their scripts.
NextScope ==
  \/ \E w \in ScopeTasks : ScopeBind(w)
  \/ \E w \in ScopeTasks, n \in ScriptNames : ScopeAssign(w, n)
  \/ \E w \in ScopeTasks, n \in ScriptNames : ScopeExport(w, n)
  \/ \E w \in ScopeTasks, n \in AutoNames : ScopeAutoExport(w, n)
  \/ \E w \in ScopeTasks : ScopeEnd(w)

SpecScope == Init /\ [][NextScope]_vars

\* ================================================================ the receiver
\* Worker._process_input and Worker.run on their own: the lines of the
\* worker's stdin one at a time.  A line is an EXECUTE request for a new
\* task, with queue "main" or without, a CANCEL request for a task, a text
\* that is not JSON, a JSON object whose requestType names no RequestType,
\* or the empty line.  Tasks are numbered in the order of their requests.

\* Number of lines written to the worker's stdin.
MaxLines == 4

LineKinds == {"execute", "cancel", "notjson", "badtype", "empty"}

\* What lines 209-211 make of a line: message.decode raises on a text that
\* is not JSON and RequestType(...) raises ValueError on an unknown value;
\* nothing in _process_input catches either.
Parses(kind) == kind \in {"execute", "cancel"}

\* A caller, or anything else that holds the pipe, writes one line.
ReceiverFeed(kind, q, c) ==
  /\ rfed < MaxLines
  /\ rfed' = rfed + 1
  /\ rstdin' = Append(rstdin,
       [kind |-> kind,
        task |-> IF kind = "execute" THEN rfed + 1
                 ELSE IF kind = "cancel" THEN c ELSE 0,
        queue |-> IF kind = "execute" THEN q ELSE "none"])
  /\ UNCHANGED <<engineVars, earlyVars, proxyVars, lastVars, stdoutVars, codecVars, shmVars, ndVars, rcvPc, rseen, rtasks, rcancel,
                 rrunning, mqueue, mstarted>>

\* Worker._process_input, lines 200-233: one turn of its loop.
ReceiverLine ==
  /\ rcvPc = "read"
  /\ rstdin # <<>>
  /\ LET line == Head(rstdin) IN
       /\ rstdin' = Tail(rstdin)
       /\ rseen' = Append(rseen, line)
       /\ rcvPc' = IF line.kind = "empty" THEN "returned"
                   ELSE IF Parses(line.kind) THEN "read" ELSE "raised"
       /\ rrunning' = IF line.kind = "empty" THEN FALSE ELSE rrunning
       /\ rtasks' = IF line.kind = "execute" THEN rtasks \cup {line.task}
                                             ELSE rtasks
       /\ mqueue' = IF line.kind = "execute" /\ OnMainQueue(line.queue)
                      THEN Append(mqueue, line.task) ELSE mqueue
       /\ rcancel' = IF line.kind = "cancel" /\ line.task \in rtasks
                       THEN rcancel \cup {line.task} ELSE rcancel
  /\ UNCHANGED <<engineVars, earlyVars, proxyVars, lastVars, stdoutVars, codecVars, shmVars, ndVars, rfed, mstarted>>

\* Worker.run, lines 191-197: one turn of the main loop that finds a task
\* in the queue and runs it to its end on the main thread.
ReceiverMainLoop ==
  /\ rrunning
  /\ mqueue # <<>>
  /\ mstarted' = Append(mstarted, Popped(mqueue))
  /\ mqueue' = AfterPop(mqueue)
  /\ UNCHANGED <<engineVars, earlyVars, proxyVars, lastVars, stdoutVars, codecVars, shmVars, ndVars, rstdin, rfed, rcvPc, rseen, rtasks,
                 rcancel, rrunning>>

NextReceiver ==
  \/ \E k \in LineKinds, q \in Queues, c \in 1..MaxLines : ReceiverFeed(k, q, c)
  \/ ReceiverLine
  \/ ReceiverMainLoop

SpecReceiver == Init /\ [][NextReceiver]_vars

\* The receiver and the main loop with their threads scheduled: a thread
\* that can take a step takes one.  Nothing obliges a caller to write.
SpecReceiverFair ==
  /\ SpecReceiver
  /\ WF_vars(ReceiverLine)
  /\ WF_vars(ReceiverMainLoop)

\* ================================================================ the codec
\* encode and decode of util/message.py and of the older types.py, and what
\* Task._handle does with the outputs of a COMPLETION response.
\*
\* A Python value and a JSON text are both trees of nodes [tag, val, items]:
\*   "atom"    a string (val); in a JSON text, val is the escaped string
\*   "list"    a list, items = <<"", element>> pairs
\*   "map"     a dict / JSON object, items = <<key, value>> pairs
\*   "shm"     a SharedMemory object, items = its attributes
\*   "ndarray" an NDArray object, items = its attributes
\*   "object"  any other Python object, which json cannot serialize (val
\*             tells the objects apart)
\*   "proxy"   a ProxyObject for the worker variable val
\*   "raised"  no value: the call raised an exception
\* A JSON text has only atoms, lists and maps.

Atom(v) == [tag |-> "atom", val |-> v, items |-> <<>>]
List(s) == [tag |-> "list", val |-> "",
            items |-> [i \in 1..Len(s) |-> <<"", s[i]>>]]
Map(kv) == [tag |-> "map", val |-> "", items |-> kv]
Object(n) == [tag |-> "object", val |-> n, items |-> <<>>]
Proxy(var) == [tag |-> "proxy", val |-> var, items |-> <<>>]
Raised == [tag |-> "raised", val |-> "", items |-> <<>>]

\* The two codecs of the repository.
CodecModules == {"message", "types"}

\* The attribute that holds a region's size: SharedMemory.rsize in
\* util/message.py (lines 40-45), SharedMemory.size in types.py (187-192).
SizeAttr(mod) == IF mod = "message" THEN "rsize" ELSE "size"

\* The SharedMemory object a constructor call with a name and a size yields.
SharedMemory(mod, name, size) ==
  [tag |-> "shm", val |-> "",
   items |-> <<<<"name", name>>, <<SizeAttr(mod), size>>>>]

\* NDArray.__init__ with a region supplied: the three arguments are stored.
NDArray(dtype, shape, shm) ==
  [tag |-> "ndarray", val |-> "",
   items |-> <<<<"dtype", dtype>>, <<"shape", shape>>, <<"shm", shm>>>>]

\* dict.get / obj[key] on a map node, and attribute access on an object.
Has(node, key) == \E i \in 1..Len(node.items) : node.items[i][1] = key
Get(node, key) ==
  node.items[CHOOSE i \in 1..Len(node.items) : node.items[i][1] = key][2]

\* The strings of the model; one has a newline in it.
WithNewline == "a\nb"
Strings == {"x", WithNewline}

\* json.dumps writes a string with its control characters escaped, and
\* json.loads undoes it.
Escape(s) == IF s = WithNewline THEN "a\\nb" ELSE s
Unescape(s) == IF s = "a\\nb" THEN WithNewline ELSE s

\* message.encode in a worker gives the k-th object it cannot serialize the
\* name _appose_auto_{k} (lines 56-57); the messages of the model hold
\* their objects in the order o0, o1.
AutoVar(n) == IF n = "o0" THEN "_appose_auto_0" ELSE "_appose_auto_1"

\* An encoder that writes a region's size under "size" in both modules.
EncSizeKeyOther(mod) == "size"

\* The key under which each encoder writes a region's size (message.py
\* line 44, types.py line 191).
EncSizeKey(mod) == IF mod = "message" THEN "rsize" ELSE "size"

\* The key each object hook reads it from (message.py line 76, types.py
\* line 207).
DecSizeKey(mod) == IF mod = "message" THEN "rsize" ELSE "size"

\* A node built from items that were themselves computed: an exception in
\* one of them is the outcome of the whole.
Lift(node) ==
  IF \E i \in 1..Len(node.items) : node.items[i][2] = Raised THEN Raised
  ELSE node

\* _ApposeJSONEncoder.default: the dict written in place of an object that
\* json cannot serialize.  message.py lines 39-69, types.py lines 186-200.
Default(mod, worker, obj) ==
  IF obj.tag = "shm"
    THEN Map(<<<<"appose_type", Atom("shm")>>,
               <<"name", Get(obj, "name")>>,
               <<EncSizeKey(mod), Get(obj, SizeAttr(mod))>>>>)
  ELSE IF obj.tag = "ndarray"
    THEN Map(<<<<"appose_type", Atom("ndarray")>>,
               <<"dtype", Get(obj, "dtype")>>,
               <<"shape", Get(obj, "shape")>>,
               <<"shm", Get(obj, "shm")>>>>)
  ELSE IF mod = "message" /\ worker
    THEN Map(<<<<"appose_type", Atom("worker_object")>>,
               <<"var_name", Atom(AutoVar(obj.val))>>>>)
  ELSE Raised

\* encode: json.dumps walks lists and dicts, escapes strings and encodes
\* what default returns for anything else.
RECURSIVE Encode(_, _, _)
Encode(mod, worker, v) ==
  IF v.tag = "atom" THEN Atom(Escape(v.val))
  ELSE IF v.tag \in {"list", "map"}
    THEN Lift([v EXCEPT !.items =
                 [i \in 1..Len(v.items) |->
                    <<v.items[i][1], Encode(mod, worker, v.items[i][2])>>]])
  ELSE IF v = Raised \/ Default(mod, worker, v) = Raised THEN Raised
  ELSE Encode(mod, worker, Default(mod, worker, v))

\* The names of the shared-memory blocks that exist.
Blocks == {"psm_1"}

\* SharedMemory(name=..., rsize=...) with create false: attaches to the
\* block of that name and keeps the size it is given; fails if there is no
\* such block.
Attach(mod, name, size) ==
  IF name.tag = "atom" /\ name.val \in Blocks
    THEN SharedMemory(mod, name, size)
    ELSE Raised

\* _appose_object_hook.  message.py lines 72-84, types.py lines 203-211.
Hook(mod, obj) ==
  IF ~Has(obj, "appose_type") THEN obj
  ELSE IF Get(obj, "appose_type") = Atom("shm")
    THEN IF Has(obj, "name") /\ Has(obj, DecSizeKey(mod))
           THEN Attach(mod, Get(obj, "name"), Get(obj, DecSizeKey(mod)))
           ELSE Raised
  ELSE IF Get(obj, "appose_type") = Atom("ndarray")
    THEN IF Has(obj, "dtype") /\ Has(obj, "shape") /\ Has(obj, "shm")
           THEN NDArray(Get(obj, "dtype"), Get(obj, "shape"), Get(obj, "shm"))
           ELSE Raised
  ELSE obj

\* decode: json.loads builds the values bottom-up and passes every dict to
\* the object hook.
RECURSIVE Decode(_, _)
Decode(mod, j) ==
  IF j.tag = "atom" THEN Atom(Unescape(j.val))
  ELSE IF j.tag = "list"
    THEN Lift([j EXCEPT !.items =
                 [i \in 1..Len(j.items) |->
                    <<"", Decode(mod, j.items[i][2])>>]])
  ELSE IF j.tag = "map"
    THEN LET d == Lift([j EXCEPT !.items =
                          [i \in 1..Len(j.items) |->
                             <<j.items[i][1], Decode(mod, j.items[i][2])>>]])
         IN IF d = Raised THEN Raised ELSE Hook(mod, d)
  ELSE Raised

\* proxify_worker_objects, message.py lines 87-116.
RECURSIVE proxify_worker_objects(_)
proxify_worker_objects(data) ==
  IF data.tag = "map"
    THEN IF Has(data, "appose_type")
              /\ Get(data, "appose_type") = Atom("worker_object")
           THEN Proxy(Get(data, "var_name").val)
           ELSE [data EXCEPT !.items =
                   [i \in 1..Len(data.items) |->
                      <<data.items[i][1],
                        proxify_worker_objects(data.items[i][2])>>]]
  ELSE IF data.tag = "list"
    THEN [data EXCEPT !.items =
            [i \in 1..Len(data.items) |->
               <<"", proxify_worker_objects(data.items[i][2])>>]]
  ELSE data

\* dict.update: the entries of `new` replace or extend those of `old`.
Update(old, new) ==
  Map(SelectSeq(old.items, LAMBDA kv : ~Has(new, kv[1])) \o new.items)

\* Task._handle, lines 573-578, on a COMPLETION response: the outputs of
\* the response are merged into Task.outputs as they were decoded.
HandleOutputs(outputs, response) ==
  IF Has(response, "outputs")
    THEN Update(outputs, Get(response, "outputs"))
    ELSE outputs

\* ---- the values the model encodes
\* Nesting depth of the values.
MaxDepth == 2

Region(mod) == SharedMemory(mod, Atom("psm_1"), Atom("8"))
Array(mod) == NDArray(Atom("uint8"), List(<<Atom("2"), Atom("4")>>), Region(mod))

\* Plain dicts that happen to have an appose_type key.
TaggedMaps ==
  { Map(<<<<"appose_type", Atom(t)>>, <<"name", Atom(n)>>>>) :
      t \in {"shm", "x"}, n \in {"psm_1", "x"} }
  \cup { Map(<<<<"appose_type", Atom("ndarray")>>>>) }

Leaves(mod) ==
  {Atom(s) : s \in Strings} \cup {Region(mod), Array(mod), Object("o0")}

\* The values one level above the set S.
Above(S) ==
  {List(<<a>>) : a \in S} \cup {Map(<<<<"k", a>>>>) : a \in S}

RECURSIVE Values(_, _)
Values(mod, d) ==
  IF d = 0 THEN Leaves(mod)
  ELSE Values(mod, d - 1) \cup Above(Values(mod, d - 1))
         \cup (IF d = 1 THEN TaggedMaps
                               \cup {List(<<Object("o0"), Object("o1")>>),
                                     List(<<Atom(WithNewline), Array(mod)>>)}
                        ELSE {})

\* Whether a value holds a Python object that json cannot serialize.
RECURSIVE HasObject(_)
HasObject(v) ==
  \/ v.tag = "object"
  \/ \E i \in 1..Len(v.items) : HasObject(v.items[i][2])

\* A caller or a script makes a message with the value v in it on a process
\* that uses the codec `mod`; the worker uses util/message.py.  Objects
\* that json cannot serialize are left to the worker's results.
CodecNew(mod, worker, v) ==
  /\ cPc = "new"
  /\ worker => mod = "message"
  /\ HasObject(v) => worker
  /\ cPc' = "made"
  /\ cmod' = mod
  /\ cworker' = worker
  /\ cmsg' = Map(<<<<"responseType", Atom(COMPLETION)>>,
                   <<"outputs", Map(<<<<"result", v>>>>)>>>>)
  /\ UNCHANGED <<engineVars, earlyVars, proxyVars, lastVars, stdoutVars, recvVars, shmVars, ndVars, cjson, cback, coutputs>>

\* encode(message).
CodecEncode ==
  /\ cPc = "made"
  /\ cPc' = "encoded"
  /\ cjson' = Encode(cmod, cworker, cmsg)
  /\ UNCHANGED <<engineVars, earlyVars, proxyVars, lastVars, stdoutVars, recvVars, shmVars, ndVars, cmod, cworker, cmsg, cback,
                 coutputs>>

\* decode(line) on the process that reads the line.
CodecDecode ==
  /\ cPc = "encoded"
  /\ cjson # Raised
  /\ cPc' = "decoded"
  /\ cback' = Decode(cmod, cjson)
  /\ UNCHANGED <<engineVars, earlyVars, proxyVars, lastVars, stdoutVars, recvVars, shmVars, ndVars, cmod, cworker, cmsg, cjson,
                 coutputs>>

\* Task._handle on the decoded response of a worker.
CodecHandle ==
  /\ cPc = "decoded"
  /\ cworker
  /\ cback # Raised
  /\ cPc' = "handled"
  /\ coutputs' = HandleOutputs(coutputs, cback)
  /\ UNCHANGED <<engineVars, earlyVars, proxyVars, lastVars, stdoutVars, recvVars, shmVars, ndVars, cmod, cworker, cmsg, cjson,
                 cback>>

NextCodec ==
  \/ \E mod \in CodecModules, worker \in BOOLEAN :
       \E v \in Values(mod, MaxDepth) : CodecNew(mod, worker, v)
  \/ CodecEncode
  \/ CodecDecode
  \/ CodecHandle

SpecCodec == Init /\ [][NextCodec]_vars

\* ================================================================ shared memory
\* types.SharedMemory in the service process and in the worker process: one
\* OS block, one SharedMemory object per process, and the resource tracker
\* of each process, which unlinks the blocks registered with it when its
\* process exits.

Processes == {"service", "worker"}

NoHandle ==
  [map |-> "none", flag |-> FALSE, made |-> "none", disposed |-> FALSE,
   flagAt |-> FALSE]

\* Worker.__init__, lines 173-181, when the worker process starts: it sets
\* message._worker_mode; types._is_worker is left as it is.
ShmWorkerInit ==
  /\ shmUp["worker"] = "none"
  /\ shmUp' = [shmUp EXCEPT !["worker"] = "up"]
  /\ shmWorkerMode' = TRUE
  /\ UNCHANGED <<engineVars, earlyVars, proxyVars, lastVars, stdoutVars, recvVars, codecVars, ndVars, shmBlock,
                 shmHandle, shmTracked, shmIsWorker, shmDestroyedBy>>

\* SharedMemory.__init__, lines 48-50: the base class registers the block
\* with the resource tracker of the process, and lines 51-65 take it out
\* again if the process is flagged as a worker.
Tracked(p) ==
  IF p = "worker" /\ shmIsWorker THEN shmTracked \ {p}
                                 ELSE shmTracked \cup {p}

\* SharedMemory(create=True, size=...), lines 48-93.
ShmCreate(p) ==
  /\ shmUp[p] = "up"
  /\ shmBlock = "none"
  /\ shmBlock' = "exists"
  /\ shmHandle' = [shmHandle EXCEPT ![p] =
       [NoHandle EXCEPT !.map = "open", !.flag = TRUE, !.made = "create"]]
  /\ shmTracked' = Tracked(p)
  /\ UNCHANGED <<engineVars, earlyVars, proxyVars, lastVars, stdoutVars, recvVars, codecVars, ndVars, shmUp,
                 shmWorkerMode, shmIsWorker, shmDestroyedBy>>

\* SharedMemory(name=..., size=...) as the object hook calls it when a
\* message with the block's descriptor is decoded, lines 48-93.
ShmAttach(p) ==
  /\ shmUp[p] = "up"
  /\ shmBlock = "exists"
  /\ shmHandle[p].map = "none"
  /\ shmHandle' = [shmHandle EXCEPT ![p] =
       [NoHandle EXCEPT !.map = "open", !.flag = FALSE, !.made = "attach"]]
  /\ shmTracked' = Tracked(p)
  /\ UNCHANGED <<engineVars, earlyVars, proxyVars, lastVars, stdoutVars, recvVars, codecVars, ndVars, shmUp, shmBlock,
                 shmWorkerMode, shmIsWorker, shmDestroyedBy>>

\* SharedMemory.unlink_on_dispose(value), lines 95-107.
ShmUnlinkOnDispose(p, value) ==
  /\ shmUp[p] = "up"
  /\ shmHandle[p].map = "open"
  /\ ~shmHandle[p].disposed
  /\ shmHandle[p].flag # value
  /\ shmHandle' = [shmHandle EXCEPT ![p].flag = value]
  /\ UNCHANGED <<engineVars, earlyVars, proxyVars, lastVars, stdoutVars, recvVars, codecVars, ndVars, shmUp, shmBlock,
                 shmTracked, shmWorkerMode, shmIsWorker, shmDestroyedBy>>

\* SharedMemory.dispose, lines 109-113: the state of the local mapping
\* afterwards.  unlink() removes the block and leaves the mapping alone.
DisposeMap(h) == IF h.flag THEN h.map ELSE "closed"

\* SharedMemory.dispose, lines 109-113, also run by __exit__ (118-119) and
\* by NDArray.__exit__ (181-182).  unlink() of a block that is gone
\* raises; a block that is there is removed and taken off the tracker.
ShmDispose(p) ==
  /\ shmUp[p] = "up"
  /\ shmHandle[p].map = "open"
  /\ ~shmHandle[p].disposed
  /\ LET h == shmHandle[p]
         unlinks == h.flag /\ shmBlock = "exists" IN
       /\ shmHandle' = [shmHandle EXCEPT ![p] =
            [h EXCEPT !.map = DisposeMap(h), !.disposed = TRUE,
                      !.flagAt = h.flag]]
       /\ shmBlock' = IF unlinks THEN "destroyed" ELSE shmBlock
       /\ shmTracked' = IF unlinks THEN shmTracked \ {p} ELSE shmTracked
       /\ shmDestroyedBy' = IF unlinks THEN shmDestroyedBy \cup {<<p, "dispose">>}
                                       ELSE shmDestroyedBy
  /\ UNCHANGED <<engineVars, earlyVars, proxyVars, lastVars, stdoutVars, recvVars, codecVars, ndVars, shmUp,
                 shmWorkerMode, shmIsWorker>>

\* A process exits: its mappings go, and its resource tracker unlinks the
\* blocks still registered with it.
ShmExit(p) ==
  /\ shmUp[p] = "up"
  /\ shmUp' = [shmUp EXCEPT ![p] = "exited"]
  /\ LET unlinks == p \in shmTracked /\ shmBlock = "exists" IN
       /\ shmBlock' = IF unlinks THEN "destroyed" ELSE shmBlock
       /\ shmDestroyedBy' = IF unlinks THEN shmDestroyedBy \cup {<<p, "exit">>}
                                       ELSE shmDestroyedBy
  /\ shmTracked' = shmTracked \ {p}
  /\ shmHandle' = [shmHandle EXCEPT ![p].map =
                     IF @ = "open" THEN "closed" ELSE @]
  /\ UNCHANGED <<engineVars, earlyVars, proxyVars, lastVars, stdoutVars, recvVars, codecVars, ndVars, shmWorkerMode,
                 shmIsWorker>>

NextShm ==
  \/ ShmWorkerInit
  \/ \E p \in Processes : ShmCreate(p)
  \/ \E p \in Processes : ShmAttach(p)
  \/ \E p \in Processes, v \in BOOLEAN : ShmUnlinkOnDispose(p, v)
  \/ \E p \in Processes : ShmDispose(p)
  \/ \E p \in Processes : ShmExit(p)

SpecShm == Init /\ [][NextShm]_vars

\* ================================================================ NDArray
\* NDArray.__init__ of types.py without a region supplied: the region it
\* creates for a dtype and a shape.  A dtype is its text, one character at
\* a time, with the bit width it names (0 if it names none).

\* Largest extent of a dimension, and largest number of dimensions.
MaxExtent == 3
MaxDims == 2

DigitChars == <<"0", "1", "2", "3", "4", "5", "6", "7", "8", "9">>
IsDigit(c) == \E d \in 1..10 : DigitChars[d] = c
DigitValue(c) == (CHOOSE d \in 1..10 : DigitChars[d] = c) - 1

Dtypes ==
  { [text |-> <<"u", "i", "n", "t", "8">>, width |-> 8],
    [text |-> <<"i", "n", "t", "1", "6">>, width |-> 16],
    [text |-> <<"f", "l", "o", "a", "t", "3", "2">>, width |-> 32],
    [text |-> <<"i", "n", "t", "4">>, width |-> 4],
    [text |-> <<"b", "o", "o", "l">>, width |-> 0] }

RECURSIVE Shapes(_)
Shapes(n) ==
  IF n = 0 THEN {<<>>}
  ELSE Shapes(n - 1)
         \cup {Append(s, e) : s \in Shapes(n - 1), e \in 0..MaxExtent}

\* math.prod(shape).
RECURSIVE Prod(_)
Prod(shape) == IF shape = <<>> THEN 1 ELSE Head(shape) * Prod(Tail(shape))

\* int(text) of a text of digits.
RECURSIVE ToInt(_)
ToInt(ds) ==
  IF ds = <<>> THEN 0
  ELSE 10 * ToInt(SubSeq(ds, 1, Len(ds) - 1)) + DigitValue(ds[Len(ds)])

\* _bytes_per_element, lines 214-219: the digits of the dtype, read as one
\* number, are its bits; no digits at all is a ValueError.  The result is
\* bits / 8, a float; the model keeps the bits.
HasBits(dtype) == SelectSeq(dtype, IsDigit) # <<>>
Bits(dtype) == ToInt(SelectSeq(dtype, IsDigit))

\* A size computation that rounds down.
RegionSizeFloor(dtype, shape) == (Prod(shape) * Bits(dtype)) \div 8

\* NDArray.__init__, lines 148-150: ceil(prod(shape) * bytes_per_element).
RegionSize(dtype, shape) == (Prod(shape) * Bits(dtype) + 7) \div 8

\* The sizes the OS may give a block of n bytes: n, or n rounded up to
\* whole pages.
Allocated(n) == {n, ((n + 4095) \div 4096) * 4096}

\* A caller chooses the arguments of NDArray(dtype, shape).
NDArrayArgs(dtype, shape) ==
  /\ ndPc = "new"
  /\ ndPc' = "args"
  /\ ndDtype' = dtype
  /\ ndShape' = shape
  /\ UNCHANGED <<engineVars, earlyVars, proxyVars, lastVars, stdoutVars, recvVars, codecVars, shmVars, ndSize>>

\* NDArray.__init__, lines 137-153, with shm None.  _bytes_per_element
\* raises on a dtype without digits, and SharedMemory(create=True, size=0)
\* raises ValueError.
NDArrayInit ==
  /\ ndPc = "args"
  /\ IF HasBits(ndDtype.text) /\ RegionSize(ndDtype.text, ndShape) > 0
       THEN /\ ndPc' = "made"
            /\ ndSize' \in Allocated(RegionSize(ndDtype.text, ndShape))
       ELSE /\ ndPc' = "raised"
            /\ UNCHANGED ndSize
  /\ UNCHANGED <<engineVars, earlyVars, proxyVars, lastVars, stdoutVars, recvVars, codecVars, shmVars, ndDtype,
                 ndShape>>

NextNDArray ==
  \/ \E dtype \in Dtypes, shape \in Shapes(MaxDims) : NDArrayArgs(dtype, shape)
  \/ NDArrayInit

SpecNDArray == Init /\ [][NextNDArray]_vars

\* ================================================================ stdout lines
\* Service._stdout_loop and Task._handle on whatever the worker's stdout
\* carries, one line per step: a text that is not JSON, or a JSON object
\* with or without a task id and a responseType, for a task that is or is
\* not in Service._tasks.  A task of this specification is a record of its
\* status, outputs, error, listeners and registry membership.

StdoutTasks == 1..MaxStdoutTasks
\* A task id that no task has.
NoSuchTask == MaxStdoutTasks + 1

ResponseTypes == {LAUNCH, UPDATE, COMPLETION, CANCELATION, FAILURE, CRASH}

\* The lines: kind "text" is not JSON and "eof" is the end of the stream;
\* task 0 is a missing task id and type "none" a missing responseType.
StdoutLines ==
  [kind : {"json"}, task : 0..NoSuchTask,
   type : ResponseTypes \cup {"none", "BOGUS"}]
    \cup {[kind |-> k, task |-> 0, type |-> "none"] : k \in {"text", "eof"}}

NoStdoutTask ==
  [status |-> INITIAL, registered |-> FALSE, outputs |-> FALSE,
   error |-> NoError, listeners |-> 0, called |-> 0]

\* Service.task, Task.listen and Task.start: a task with n listeners is
\* registered and its request written.
StdoutTask(t, n) ==
  /\ slPump = "read"
  /\ slTasks[t] = NoStdoutTask
  /\ slTasks' = [slTasks EXCEPT ![t] =
       [NoStdoutTask EXCEPT !.status = QUEUED, !.registered = TRUE,
                            !.listeners = n]]
  /\ UNCHANGED <<engineVars, earlyVars, proxyVars, lastVars, recvVars, codecVars, shmVars, ndVars,
                 slPump, slLines, slLast, slReport>>

\* A lookup that finds every task that was ever constructed.
LookupAny(tasks, uuid) == uuid \in StdoutTasks /\ tasks[uuid] # NoStdoutTask

\* Service._stdout_loop, line 307, `self._tasks.get(uuid)`: whether the
\* registry has a task of that id.
Lookup(tasks, uuid) == uuid \in StdoutTasks /\ tasks[uuid].registered

\* Task._handle, lines 562-590: whether it gets past its checks of the
\* response type.  A missing type returns at 563-565, ResponseType(...)
\* raises on a value that is not in the enum (566) and a CRASH type
\* returns at 586-590.
Handles(type) == type \in {LAUNCH, UPDATE, COMPLETION, CANCELATION, FAILURE}

\* Task._handle, lines 568-602, on a task record.
Handled(task, type) ==
  [task EXCEPT
     !.status = HandleStatus(type, @),
     !.registered = IF type \in {COMPLETION, CANCELATION, FAILURE}
                      THEN FALSE ELSE @,
     !.outputs = IF type = COMPLETION THEN TRUE ELSE @,
     !.error = IF type = FAILURE THEN Traceback ELSE @,
     !.called = @ + task.listeners]

\* What the debug callback is told about a line, lines 290-316 and 563-589.
Reported(tasks, line) ==
  IF line.kind = "text" THEN {"invalid"}
  ELSE IF line.task = 0 THEN {"echo", "invalid service message"}
  ELSE IF ~Lookup(tasks, line.task) THEN {"echo", "no such task"}
  ELSE IF line.type = "none" THEN {"echo", "type not specified"}
  ELSE IF line.type \notin ResponseTypes THEN {"echo", "invalid"}
  ELSE IF ~Handles(line.type) THEN {"echo", "invalid type"}
  ELSE {"echo"}

\* Service._stdout_loop, lines 285-316: one turn of the loop.
StdoutLine(line) ==
  /\ slPump = "read"
  /\ slLines < MaxStdoutLines
  /\ slLines' = slLines + 1
  /\ slLast' = line
  /\ slPump' = IF line.kind = "eof" THEN "returned" ELSE "read"
  /\ slReport' = IF line.kind = "eof" THEN {"stdout closed"}
                                      ELSE Reported(slTasks, line)
  /\ slTasks' =
       IF line.kind = "json" /\ line.task # 0 /\ Lookup(slTasks, line.task)
            /\ Handles(line.type)
         THEN [slTasks EXCEPT ![line.task] = Handled(@, line.type)]
         ELSE slTasks
  /\ UNCHANGED <<engineVars, earlyVars, proxyVars, lastVars, recvVars, codecVars, shmVars, ndVars>>

NextStdout ==
  \/ \E t \in StdoutTasks, n \in 0..1 : StdoutTask(t, n)
  \/ \E line \in StdoutLines : StdoutLine(line)

SpecStdout == Init /\ [][NextStdout]_vars

\* ================================================================ the script
\* Task._run, lines 97-132, on its own: one script from ast.parse to the
\* final value.  A script is the sequence of its top-level statements; a
\* statement is told by the class of its ast node.

\* Number of top-level statements of a script.
MaxStmts == 3

\* The statement classes that occur: an expression statement (`x + 1`), a
\* plain assignment (`x = 1`), an augmented one (`x += 1`), an annotated one
\* with a value (`x: int = 1`), an annotation alone (`x: int`), and a
\* statement of any other class (`pass`, `import m`, `for ...`).
StmtKinds == {"Expr", "Assign", "AugAssign", "AnnAssign", "AnnDecl", "Pass"}

\* hasattr(node, "value"), line 107: ast.Expr, ast.Assign, ast.AugAssign and
\* ast.AnnAssign have the field; in an annotation alone it is None.
HasValue(kind) ==
  kind \in {"Expr", "Assign", "AugAssign", "AnnAssign", "AnnDecl"}

\* The scripts of at most n statements.
RECURSIVE Scripts(_)
Scripts(n) ==
  IF n = 0 THEN {<<>>}
  ELSE LET S == Scripts(n - 1) IN
         S \cup {Append(s, k) : s \in {x \in S : Len(x) = n - 1},
                                k \in StmtKinds}

\* Task._run, lines 105-109: the final statement "looks like an expression".
LooksLikeExpression(body) ==
  /\ Len(body) > 0
  /\ HasValue(body[Len(body)])
  /\ body[Len(body)] # "Assign"

\* Task.__init__ and Task._run, line 103: a task with a script that parses.
RunScript(body) ==
  /\ runPc = "none"
  /\ runPc' = "new"
  /\ runBody' = body
  /\ UNCHANGED <<oldVars, notRunVars, runBlock, runLast, runExecuted,
                 runResult>>

\* Task._run, lines 104-111: block.body.pop() takes the final statement out
\* of the block when it looks like an expression.
RunParse ==
  /\ runPc = "new"
  /\ runPc' = "parsed"
  /\ IF LooksLikeExpression(runBody)
       THEN /\ runLast' = runBody[Len(runBody)]
            /\ runBlock' = SubSeq(runBody, 1, Len(runBody) - 1)
       ELSE /\ runLast' = "none"
            /\ runBlock' = runBody
  /\ UNCHANGED <<oldVars, notRunVars, runBody, runExecuted, runResult>>

\* Task._run, line 121: exec() of what is left of the block.
RunExec ==
  /\ runPc = "parsed"
  /\ runPc' = "executed"
  /\ runExecuted' = runBlock
  /\ UNCHANGED <<oldVars, notRunVars, runBody, runBlock, runLast,
                 runResult>>

\* Task._run, lines 122-134: eval() of the expression made of the final
\* statement's value.  compile() raises TypeError on the None of an
\* annotation alone, and fail(traceback) follows.
RunEval ==
  /\ runPc = "executed"
  /\ runPc' = IF runLast = "AnnDecl" THEN "raised" ELSE "done"
  /\ runResult' = IF runLast \in {"none", "AnnDecl"} THEN "none" ELSE "value"
  /\ UNCHANGED <<oldVars, notRunVars, runBody, runBlock, runLast,
                 runExecuted>>

NextRun ==
  \/ \E body \in Scripts(MaxStmts) : RunScript(body)
  \/ RunParse
  \/ RunExec
  \/ RunEval

SpecRun == Init /\ [][NextRun]_vars

\* ================================================================ auto-export
\* _ApposeJSONEncoder.default in a worker (util/message.py lines 53-67), run
\* by the task threads that encode their responses at the same time
\* (Task._respond, python_worker.py line 159, takes no lock).  The name is
\* formatted from the module global _proxy_counter, the global is
\* incremented by a load and a store, and the object is stored in
\* Worker.exports; a thread may be preempted between any two of these.  An
\* object is told by the thread that encodes it and its number there.

\* The object thread th is auto-exporting.
AutoObject(th) == <<th, aeCount[th] + 1>>

\* exports[var_name] = obj: the entry of that name is replaced.
Put(dict, name, obj) ==
  {e \in dict : e[1] # name} \cup {<<name, obj>>}

\* message.py line 57: var_name = f"_appose_auto_{_proxy_counter}".
AutoName(th) ==
  /\ aePc[th] = "idle"
  /\ aeCount[th] < MaxAutoExports
  /\ aeName' = [aeName EXCEPT ![th] = aeCounter]
  /\ aePc' = [aePc EXCEPT ![th] = "named"]
  /\ UNCHANGED <<oldVars, notAutoVars, aeTmp, aeCount, aeCounter, aeExports,
                 aeStored, aeEmitted>>

\* message.py line 58, _proxy_counter += 1: the load of the global.
AutoLoad(th) ==
  /\ aePc[th] = "named"
  /\ aeTmp' = [aeTmp EXCEPT ![th] = aeCounter]
  /\ aePc' = [aePc EXCEPT ![th] = "loaded"]
  /\ UNCHANGED <<oldVars, notAutoVars, aeName, aeCount, aeCounter, aeExports,
                 aeStored, aeEmitted>>

\* message.py line 58, _proxy_counter += 1: the store of the sum.
AutoStore(th) ==
  /\ aePc[th] = "loaded"
  /\ aeCounter' = aeTmp[th] + 1
  /\ aePc' = [aePc EXCEPT ![th] = "stored"]
  /\ UNCHANGED <<oldVars, notAutoVars, aeName, aeTmp, aeCount, aeExports,
                 aeStored, aeEmitted>>

\* message.py lines 61-62: _worker_instance.exports[var_name] = obj.
AutoExport(th) ==
  /\ aePc[th] = "stored"
  /\ aeExports' = Put(aeExports, aeName[th], AutoObject(th))
  /\ aeStored' = aeStored \cup {<<aeName[th], AutoObject(th)>>}
  /\ aePc' = [aePc EXCEPT ![th] = "exported"]
  /\ UNCHANGED <<oldVars, notAutoVars, aeName, aeTmp, aeCount, aeCounter,
                 aeEmitted>>

\* message.py lines 64-67: the worker_object sentinel is returned, and
\* printed with the response.
AutoEmit(th) ==
  /\ aePc[th] = "exported"
  /\ aeEmitted' = aeEmitted \cup {<<aeName[th], AutoObject(th)>>}
  /\ aeCount' = [aeCount EXCEPT ![th] = @ + 1]
  /\ aePc' = [aePc EXCEPT ![th] = "idle"]
  /\ UNCHANGED <<oldVars, notAutoVars, aeName, aeTmp, aeCounter, aeExports,
                 aeStored>>

NextAuto ==
  \/ \E th \in Encoders : AutoName(th)
  \/ \E th \in Encoders : AutoLoad(th)
  \/ \E th \in Encoders : AutoStore(th)
  \/ \E th \in Encoders : AutoExport(th)
  \/ \E th \in Encoders : AutoEmit(th)

SpecAuto == Init /\ [][NextAuto]_vars

\* ================================================================ listeners that raise
\* Task._handle and Task._crash with listeners that may raise, under the
\* threads that call them: the stdout pump, whose try block (service.py
\* lines 300-316) catches what _handle raises and goes on to the next line,
\* and the monitor, whose loop (lines 351-352) catches nothing.  A listener
\* is any callable: each invocation either returns or raises.  The worker
\* is taken as the lines it writes and the moment its process ends.

\* Service.task: the Task constructor registers the task.
FanTask ==
  /\ Cardinality(fnCreated) < MaxFanTasks
  /\ LET t == Cardinality(fnCreated) + 1 IN
       /\ fnCreated' = fnCreated \cup {t}
       /\ fnRegistry' = fnRegistry \cup {t}
  /\ UNCHANGED <<oldVars, notFanVars, fnProc, fnOut, fnLines, fnStatus,
                 fnListeners, fnCalls, fnRaised, fnWait, fnPump, fnMon>>

\* Task.listen, lines 483-490.
FanListen(t) ==
  /\ t \in fnCreated
  /\ fnStatus[t] = INITIAL
  /\ SumTo(fnListeners, MaxFanTasks) < MaxFanListeners
  /\ fnListeners' = [fnListeners EXCEPT ![t] = @ + 1]
  /\ UNCHANGED <<oldVars, notFanVars, fnProc, fnOut, fnLines, fnCreated,
                 fnRegistry, fnStatus, fnCalls, fnRaised, fnWait, fnPump,
                 fnMon>>

\* Task.start, lines 471-478.
FanStart(t) ==
  /\ t \in fnCreated
  /\ fnStatus[t] = INITIAL
  /\ fnStatus' = [fnStatus EXCEPT ![t] = QUEUED]
  /\ UNCHANGED <<oldVars, notFanVars, fnProc, fnOut, fnLines, fnCreated,
                 fnRegistry, fnListeners, fnCalls, fnRaised, fnWait, fnPump,
                 fnMon>>

\* Task.wait_for, lines 502-512, under the lock: start() in INITIAL, then
\* wait unless the status is a finished one.
FanWaitFor(t) ==
  /\ t \in fnCreated
  /\ fnWait[t] = "none"
  /\ Cardinality({u \in FanTasks : fnWait[u] # "none"}) < MaxFanWaits
  /\ LET s == IF fnStatus[t] = INITIAL THEN QUEUED ELSE fnStatus[t] IN
       /\ fnStatus' = [fnStatus EXCEPT ![t] = s]
       /\ fnWait' = [fnWait EXCEPT ![t] =
            IF s \in {QUEUED, RUNNING} THEN "waiting" ELSE "result"]
  /\ UNCHANGED <<oldVars, notFanVars, fnProc, fnOut, fnLines, fnCreated,
                 fnRegistry, fnListeners, fnCalls, fnRaised, fnPump, fnMon>>

\* Task.wait_for, lines 508-510 and 515-516.
FanWaitResult(t) ==
  /\ fnWait[t] \in {"result", "woken"}
  /\ fnWait' = [fnWait EXCEPT ![t] = WaitOutcome(fnStatus[t])]
  /\ UNCHANGED <<oldVars, notFanVars, fnProc, fnOut, fnLines, fnCreated,
                 fnRegistry, fnStatus, fnListeners, fnCalls, fnRaised,
                 fnPump, fnMon>>

\* The worker writes a response line for a task that was started.
FanRespond(t, type) ==
  /\ fnProc = "running"
  /\ fnStatus[t] # INITIAL
  /\ fnLines < MaxFanLines
  /\ fnLines' = fnLines + 1
  /\ fnOut' = Append(fnOut, <<t, type>>)
  /\ UNCHANGED <<oldVars, notFanVars, fnProc, fnCreated, fnRegistry,
                 fnStatus, fnListeners, fnCalls, fnRaised, fnWait, fnPump,
                 fnMon>>

\* The worker process ends.
FanExit ==
  /\ fnProc = "running"
  /\ fnCreated # {}
  /\ fnProc' = "exited"
  /\ UNCHANGED <<oldVars, notFanVars, fnOut, fnLines, fnCreated, fnRegistry,
                 fnStatus, fnListeners, fnCalls, fnRaised, fnWait, fnPump,
                 fnMon>>

\* Service._stdout_loop, lines 286-310: read a line, look the task up.
FanPumpRead ==
  /\ fnPump.pc = "read"
  /\ \/ /\ fnOut # <<>>
        /\ fnOut' = Tail(fnOut)
        /\ fnPump' = IF Head(fnOut)[1] \in fnRegistry
                       THEN [pc |-> "apply", task |-> Head(fnOut)[1],
                             type |-> Head(fnOut)[2], i |-> 1]
                       ELSE fnPump
     \/ /\ fnOut = <<>>
        /\ fnProc = "exited"
        /\ fnPump' = [fnPump EXCEPT !.pc = "done"]
        /\ UNCHANGED fnOut
  /\ UNCHANGED <<oldVars, notFanVars, fnProc, fnLines, fnCreated, fnRegistry,
                 fnStatus, fnListeners, fnCalls, fnRaised, fnWait, fnMon>>

\* Task._handle, lines 562-590: the state change.
FanPumpApply ==
  /\ fnPump.pc = "apply"
  /\ LET t == fnPump.task IN
       /\ fnStatus' = [fnStatus EXCEPT ![t] = HandleStatus(fnPump.type, @)]
       /\ fnRegistry' = IF fnPump.type \in {COMPLETION, CANCELATION, FAILURE}
                          THEN fnRegistry \ {t} ELSE fnRegistry
  /\ fnPump' = [fnPump EXCEPT !.pc = "call"]
  /\ UNCHANGED <<oldVars, notFanVars, fnProc, fnOut, fnLines, fnCreated,
                 fnListeners, fnCalls, fnRaised, fnWait, fnMon>>

\* One invocation `listener(event)` of the loops at lines 597-598 and
\* 607-608 by thread th on task t: what it appends to the histories.
FanCall(th, t, type, raises) ==
  /\ raises => Cardinality(UNION {fnRaised[u] : u \in FanTasks}) < MaxFanRaises
  /\ fnCalls' = [fnCalls EXCEPT ![t] =
       @ \cup {<<ListenerAt(fnListeners[t], th.i), type>>}]
  /\ fnRaised' = IF raises
       THEN [fnRaised EXCEPT ![t] =
               @ \cup {<<ListenerAt(fnListeners[t], th.i), type>>}]
       ELSE fnRaised

\* Task._handle, lines 597-598, under _stdout_loop's try: one listener is
\* called.  What it raises leaves _handle and is caught at line 313; the
\* pump logs the line as invalid and reads on.
FanPumpCall ==
  /\ fnPump.pc = "call"
  /\ fnPump.i <= fnListeners[fnPump.task]
  /\ \E raises \in BOOLEAN :
       /\ FanCall(fnPump, fnPump.task, fnPump.type, raises)
       /\ fnPump' = IF raises
            THEN [pc |-> "read", task |-> 0, type |-> "none", i |-> 0]
            ELSE [fnPump EXCEPT !.i = @ + 1]
  /\ UNCHANGED <<oldVars, notFanVars, fnProc, fnOut, fnLines, fnCreated,
                 fnRegistry, fnStatus, fnListeners, fnWait, fnMon>>

\* Task._handle, lines 600-602, after the last listener: the waiters are
\* woken if the status is a finished one.
FanPumpNotify ==
  /\ fnPump.pc = "call"
  /\ fnPump.i > fnListeners[fnPump.task]
  /\ fnWait' = IF is_finished(fnStatus[fnPump.task])
                 THEN [fnWait EXCEPT ![fnPump.task] = NotifyAll(@)]
                 ELSE fnWait
  /\ fnPump' = [pc |-> "read", task |-> 0, type |-> "none", i |-> 0]
  /\ UNCHANGED <<oldVars, notFanVars, fnProc, fnOut, fnLines, fnCreated,
                 fnRegistry, fnStatus, fnListeners, fnCalls, fnRaised, fnMon>>

\* Service._monitor_loop, lines 336-351: the process has exited and the
\* loop over self._tasks.values() starts.
FanMonWake ==
  /\ fnMon.pc = "wait"
  /\ fnProc = "exited"
  /\ fnMon' = MonitorStep([IdleMonitor EXCEPT !.size = Cardinality(fnRegistry)],
                          fnRegistry)
  /\ UNCHANGED <<oldVars, notFanVars, fnProc, fnOut, fnLines, fnCreated,
                 fnRegistry, fnStatus, fnListeners, fnCalls, fnRaised, fnWait,
                 fnPump>>

\* Task._crash, lines 605-606.
FanMonCrash ==
  /\ fnMon.pc = "crash"
  /\ fnStatus' = [fnStatus EXCEPT ![fnMon.task] = CRASHED]
  /\ fnMon' = [fnMon EXCEPT !.pc = "call", !.i = 1]
  /\ UNCHANGED <<oldVars, notFanVars, fnProc, fnOut, fnLines, fnCreated,
                 fnRegistry, fnListeners, fnCalls, fnRaised, fnWait, fnPump>>

\* Task._crash, lines 607-608: one listener is called.  What it raises
\* leaves _crash, the loop of line 351 and _monitor_loop: the thread ends.
FanMonCall ==
  /\ fnMon.pc = "call"
  /\ fnMon.i <= fnListeners[fnMon.task]
  /\ \E raises \in BOOLEAN :
       /\ FanCall(fnMon, fnMon.task, CRASH, raises)
       /\ fnMon' = IF raises THEN [fnMon EXCEPT !.pc = "raised"]
                             ELSE [fnMon EXCEPT !.i = @ + 1]
  /\ UNCHANGED <<oldVars, notFanVars, fnProc, fnOut, fnLines, fnCreated,
                 fnRegistry, fnStatus, fnListeners, fnWait, fnPump>>

\* Task._crash, lines 609-610, after the last listener.
FanMonNotify ==
  /\ fnMon.pc = "call"
  /\ fnMon.i > fnListeners[fnMon.task]
  /\ fnWait' = [fnWait EXCEPT ![fnMon.task] = NotifyAll(@)]
  /\ fnMon' = [fnMon EXCEPT !.pc = "next", !.i = 0]
  /\ UNCHANGED <<oldVars, notFanVars, fnProc, fnOut, fnLines, fnCreated,
                 fnRegistry, fnStatus, fnListeners, fnCalls, fnRaised, fnPump>>

\* Service._monitor_loop, line 351: the iterator's next(), which raises
\* RuntimeError when the dict changed size since the loop began.
FanMonNext ==
  /\ fnMon.pc = "next"
  /\ fnMon' = IF Cardinality(fnRegistry) # fnMon.size
                THEN [fnMon EXCEPT !.pc = "dead"]
                ELSE MonitorStep(fnMon, fnRegistry)
  /\ UNCHANGED <<oldVars, notFanVars, fnProc, fnOut, fnLines, fnCreated,
                 fnRegistry, fnStatus, fnListeners, fnCalls, fnRaised, fnWait,
                 fnPump>>

\* Service._monitor_loop, line 354.
FanMonClear ==
  /\ fnMon.pc = "clear"
  /\ fnRegistry' = {}
  /\ fnMon' = [fnMon EXCEPT !.pc = "done"]
  /\ UNCHANGED <<oldVars, notFanVars, fnProc, fnOut, fnLines, fnCreated,
                 fnStatus, fnListeners, fnCalls, fnRaised, fnWait, fnPump>>

NextFanout ==
  \/ FanTask
  \/ \E t \in FanTasks : FanListen(t)
  \/ \E t \in FanTasks : FanStart(t)
  \/ \E t \in FanTasks : FanWaitFor(t)
  \/ \E t \in FanTasks : FanWaitResult(t)
  \/ \E t \in FanTasks, type \in ResponseTypes \ {CRASH} : FanRespond(t, type)
  \/ FanExit
  \/ FanPumpRead
  \/ FanPumpApply
  \/ FanPumpCall
  \/ FanPumpNotify
  \/ FanMonWake
  \/ FanMonCrash
  \/ FanMonCall
  \/ FanMonNotify
  \/ FanMonNext
  \/ FanMonClear

SpecFanout == Init /\ [][NextFanout]_vars

\* ================================================================ the lifecycle
\* The public calls on one Service object, one after the other: start(),
\* task(), close(), and the with statement's __enter__ and __exit__.  A
\* call is recorded with whether the service had been started when it was
\* made, whether it raised, and the number of processes spawned by its end.

Called(op, raised, n) ==
  Append(lcOps, [op |-> op, started |-> lcProcess # "none",
                 raised |-> raised, spawned |-> n])

\* Service.start, lines 125-148: spawn the worker unless already started.
DoStart ==
  IF lcProcess # "none"
    THEN UNCHANGED <<lcProcess, lcStdin, lcSpawned>>
    ELSE /\ lcProcess' = "popen"
         /\ lcStdin' = "open"
         /\ lcSpawned' = lcSpawned + 1

\* Service.close, line 273: self._process.stdin.close().  With _process
\* None the attribute access raises AttributeError; closing a closed file
\* does nothing.
DoClose ==
  /\ lcStdin' = IF lcProcess = "none" THEN lcStdin ELSE "closed"
  /\ UNCHANGED <<lcProcess, lcSpawned>>

\* Whether close() raises.
CloseRaises == lcProcess = "none"

\* A caller calls Service.start().
LcStart ==
  /\ Len(lcOps) < MaxServiceOps
  /\ DoStart
  /\ lcOps' = Called("start", FALSE, lcSpawned')
  /\ UNCHANGED <<oldVars, notLcVars, lcEntered>>

\* A caller calls Service.task(...), lines 162-163.
LcTask ==
  /\ Len(lcOps) < MaxServiceOps
  /\ DoStart
  /\ lcOps' = Called("task", FALSE, lcSpawned')
  /\ UNCHANGED <<oldVars, notLcVars, lcEntered>>

\* A caller calls Service.close(), lines 269-273.
LcClose ==
  /\ Len(lcOps) < MaxServiceOps
  /\ DoClose
  /\ lcOps' = Called("close", CloseRaises, lcSpawned')
  /\ UNCHANGED <<oldVars, notLcVars, lcEntered>>

\* A with statement on the service begins: __enter__, lines 275-276.
LcEnter ==
  /\ Len(lcOps) < MaxServiceOps
  /\ lcEntered' = lcEntered + 1
  /\ lcOps' = Called("enter", FALSE, lcSpawned)
  /\ UNCHANGED <<oldVars, notLcVars, lcProcess, lcStdin, lcSpawned>>

\* A with-block on the service is left: __exit__, lines 278-279.
LcExit ==
  /\ Len(lcOps) < MaxServiceOps
  /\ lcEntered > 0
  /\ lcEntered' = lcEntered - 1
  /\ DoClose
  /\ lcOps' = Called("exit", CloseRaises, lcSpawned')
  /\ UNCHANGED <<oldVars, notLcVars>>

NextLifecycle ==
  \/ LcStart
  \/ LcTask
  \/ LcClose
  \/ LcEnter
  \/ LcExit

SpecLifecycle == Init /\ [][NextLifecycle]_vars

\* ================================================================ callers
\* The engine with callers that register listeners.
NextListen ==
  \/ Engine(MaxTasksCallers)
  \/ \E t \in Tasks : TaskListen(t)
  \/ \E t \in Tasks : TaskListenAppend(t)

SpecListen == Init /\ [][NextListen]_vars

\* The engine with callers that call start() again and wait_for().
NextCalls ==
  \/ Engine(MaxTasksCallers)
  \/ \E t \in Tasks : TaskStartRejected(t)
  \/ \E t \in Tasks : TaskWaitFor(t)
  \/ \E t \in Tasks : TaskWaitCheck(t)
  \/ \E t \in Tasks : TaskWaitResult(t)

SpecCalls == Init /\ [][NextCalls]_vars

\* ---------------------------------------------------------------- proxies
\* Number of proxy operations the callers make.
MaxProxyOps == 1

\* ProxyObject.__getattr__, __call__ and __dir__ (util/proxy.py lines
\* 95-142), first half: `task = self._service.task(script, ...)`, which is
\* Service.task: the worker is spawned if need be and the task registered.
ProxyTask ==
  /\ Cardinality(created) < MaxTasks
  /\ Cardinality(proxied) < MaxProxyOps
  /\ LET t == Cardinality(created) + 1 IN
       /\ created' = created \cup {t}
       /\ registry' = registry \cup {t}
       /\ proxied' = proxied \cup {t}
  /\ proc' = IF proc = "none" THEN "running" ELSE proc
  /\ stdinOpen' = IF proc = "none" THEN TRUE ELSE stdinOpen
  /\ UNCHANGED <<status, error, listeners, events, calls, startPc, ncancel,
                 waitPc, pump, mon, pipeVars, workerVars, histVars, listenPc,
                 earlyVars, recvVars, codecVars, shmVars, ndVars, stdoutVars,
                 lastVars>>

\* The second half, `task.wait_for()`.
ProxyWait(t) == t \in proxied /\ TaskWaitFor(t)

\* The end of the operation, lines 100-109: the task's result if wait_for
\* returned, RuntimeError(str(e)) if it raised anything.
ProxyOutcome(w) ==
  IF w = "returned" THEN "returned"
  ELSE IF w \in {"raisedTaskException", "raisedOther"} THEN "raised"
  ELSE "running"

\* The engine with callers that use proxies.
NextProxy ==
  \/ Next
  \/ ProxyTask
  \/ \E t \in Tasks : ProxyWait(t)
  \/ \E t \in Tasks : TaskWaitCheck(t)
  \/ \E t \in Tasks : TaskWaitResult(t)

SpecProxy == Init /\ [][NextProxy]_vars

\* The engine with callers that call cancel().
NextCancel ==
  \/ Next
  \/ \E t \in Tasks : TaskCancel(t)

SpecCancel == Init /\ [][NextCancel]_vars

\* The same callers with a third task, and a worker that is killed before
\* it has read a request: the steps of the callers, of the pump and of the
\* monitor, and the end of the worker process.  Every behaviour of this
\* specification is one of the engine with callers that call cancel().
NextCancelEarly ==
  \/ ServiceTask(MaxTasksCancel)
  \/ ServiceClose
  \/ \E t \in Tasks : TaskStart(t)
  \/ \E t \in Tasks : TaskStartWrite(t)
  \/ \E t \in Tasks : TaskCancel(t)
  \/ PumpRead
  \/ MonitorWake
  \/ MonitorNext
  \/ MonitorCrash
  \/ MonitorClear
  \/ WorkerKill

SpecCancelEarly == Init /\ [][NextCancelEarly]_vars

\* ================================================================ claims

\* A response or a crash of task t is being handled: its state change is
\* made and its event not yet fanned out.
Handling(t) ==
  \/ pump.pc \in {"apply", "deliver"} /\ pump.task = t
  \/ mon.pc \in {"crash", "notify"} /\ mon.task = t

\* A LAUNCH, then UPDATEs, then one terminal event, and nothing after it.
\* A task that ends before it was launched has no LAUNCH event, so the
\* LAUNCH is asked for only in front of other events: the sequence is the
\* terminal event alone, or LAUNCH, UPDATE ..., terminal event.
LaunchUpdatesTerminal(e) ==
  /\ Len(e) >= 1
  /\ is_terminal(e[Len(e)])
  /\ Len(e) >= 2 => e[1] = LAUNCH
  /\ \A i \in 2..(Len(e) - 1) : e[i] = UPDATE

\* A terminal event (a terminal response handled, or a crash) was delivered.
HasTerminalEvent(e) == \E i \in 1..Len(e) : is_terminal(e[i])

\* C1: for every task that has reached a terminal status (a terminal event
\* was delivered and no event is being handled), the events delivered to
\* its listeners are one LAUNCH, then zero or more UPDATE, then exactly one
\* terminal event, and no event after the terminal one.
C1_EventSequence ==
  \A t \in Tasks :
    HasTerminalEvent(events[t]) /\ ~Handling(t)
      => LaunchUpdatesTerminal(events[t])

\* Nothing more will be handled on the client: the worker has exited, the
\* stdout pump has read EOF and the monitor thread has ended.
Quiescent ==
  /\ proc = "exited"
  /\ pump.pc = "done"
  /\ mon.pc \in {"done", "dead"}

\* C2: the service never silently drops a task: once the worker has exited
\* and the pump and the monitor have ended, every task that was registered
\* (every Task constructed) had a terminal response handled or was crashed.
C2_NoTaskDropped ==
  Quiescent => \A t \in created : HasTerminalEvent(events[t])

\* The number of CRASH events among the events.
CrashCount(e) == Cardinality({i \in 1..Len(e) : e[i] = CRASH})

\* C3: when the worker exits while N tasks are in the registry, then once
\* the monitor thread has ended each of those N tasks has received exactly
\* one CRASH event, has status CRASHED and is out of the registry.
C3_CrashSweep ==
  mon.pc \in {"done", "dead"} =>
    \A t \in atExit :
      /\ CrashCount(events[t]) = 1
      /\ status[t] = CRASHED
      /\ t \notin registry

\* C4: is_finished() is monotonic: once a task's status is terminal it is
\* terminal in every later state.
C4_FinishedMonotonic ==
  [][\A t \in Tasks : is_finished(status[t]) => is_finished(status'[t])]_vars

\* The terminal responses among the responses.
TerminalResponses(w) ==
  {i \in 1..Len(w) : w[i] \in {COMPLETION, CANCELATION, FAILURE}}

\* C6: the worker writes at most one terminal response (COMPLETION,
\* CANCELATION or FAILURE) per task: any further one is suppressed.
C6_OneTerminalResponse ==
  \A t \in Tasks : Cardinality(TerminalResponses(written[t])) <= 1

\* C7: LAUNCH is the first response the worker writes for a task.
C7_LaunchFirst ==
  \A t \in Tasks : written[t] # <<>> => written[t][1] = LAUNCH

\* wait_for has returned or raised.
WaitOver == {"returned", "raisedTaskException", "raisedOther"}

\* C5: wait_for() starts the task if its status is INITIAL; it returns the
\* task only when the status is COMPLETE and raises TaskException only when
\* the status is FAILED, CANCELED or CRASHED.  (A wait_for whose start()
\* fails to write the request raises the I/O error; the formula leaves that
\* outcome aside.)
C5_WaitFor ==
  [][\A t \in Tasks :
       /\ waitPc[t] = "none" /\ waitPc'[t] # "none" /\ status[t] = INITIAL
            => status'[t] = QUEUED /\ startPc'[t] = "write"
       /\ waitPc[t] \notin WaitOver /\ waitPc'[t] = "returned"
            => status'[t] = COMPLETE
       /\ waitPc[t] \notin WaitOver /\ waitPc'[t] = "raisedTaskException"
            => status'[t] \in {FAILED, CANCELED, CRASHED}
       /\ waitPc[t] \notin WaitOver /\ waitPc'[t] \in WaitOver
                                    /\ waitPc'[t] # "raisedOther"
            => (waitPc'[t] = "returned" <=> status'[t] = COMPLETE)]_vars

\* Nothing more will happen to task t: the client is quiescent, or the
\* worker is up, has run the task to its end and every response it wrote
\* for the task has been handled.
Settled(t) ==
  \/ Quiescent
  \/ /\ proc = "running"
     /\ wt[t].pc = "done"
     /\ \A i \in 1..Len(stdout) : stdout[i].task # t
     /\ ~Handling(t)

\* C8: a task on which cancel() was issued after start() and before its
\* LAUNCH was handled reaches a terminal status: once nothing more will
\* happen to it, a terminal event has been delivered for it.
C8_CancelBeforeLaunch ==
  \A t \in cancelEarly : Settled(t) => HasTerminalEvent(events[t])

\* The events without the CRASH events (which answer no response).
NoCrash(e) == SelectSeq(e, LAMBDA x : x # CRASH)

IsPrefix(a, b) == Len(a) <= Len(b) /\ SubSeq(b, 1, Len(a)) = a

\* The events listener i of task t was called with, in order.
Seen(t, i) ==
  LET mine == SelectSeq(calls[t], LAMBDA c : c[1] = i)
  IN  [k \in 1..Len(mine) |-> mine[k][2]]

\* C9: the events a task's listeners are invoked with follow the order in
\* which the worker wrote the responses to stdout, and every event reaches
\* the listeners in registration order: listener i + 1 is called with an
\* event only after listener i was called with it.
C9_ListenerOrder ==
  \A t \in Tasks :
    /\ IsPrefix(NoCrash(events[t]), written[t])
    /\ \A i \in 1..listeners[t] :
         /\ IsPrefix(NoCrash(Seen(t, i)), written[t])
         /\ i > 1 => /\ IsPrefix(NoCrash(Seen(t, i)), NoCrash(Seen(t, i - 1)))
                     /\ CrashCount(Seen(t, i)) <= CrashCount(Seen(t, i - 1))

\* Two listeners have each received LAUNCH, UPDATE and COMPLETION.
C9_Witness ==
  \E t \in Tasks :
    /\ listeners[t] = 2
    /\ Seen(t, 1) = <<LAUNCH, UPDATE, COMPLETION>>
    /\ Seen(t, 2) = <<LAUNCH, UPDATE, COMPLETION>>

C11_ListenerSeesAll ==
  \A t \in Tasks :
    ~Handling(t)
      => \A i \in 1..listeners[t] : Len(Seen(t, i)) = Len(events[t])

\* The sequence e holds x.
Holds(e, x) == \E k \in 1..Len(e) : e[k] = x

\* C20: a task crashed because the worker process terminated has its error
\* set by the time its CRASH event is made and fanned out to its listeners.
C20_CrashErrorSet ==
  \A t \in Tasks : Holds(events[t], CRASH) => error[t] # NoError

\* C12: a cancel() call on a task writes one CANCEL request for the task (it
\* raises and writes nothing when the pipe cannot be written to) and changes
\* nothing else on the client side: the status, error, listeners and events
\* of every task and the service registry are the same after the call.
C12_CancelFrame ==
  [][\A t \in Tasks :
       ncancel'[t] # ncancel[t]
         => /\ stdin' = IF CanWrite
                          THEN Append(stdin, Request(CANCEL, t, "none"))
                          ELSE stdin
            /\ status' = status
            /\ error' = error
            /\ listeners' = listeners
            /\ events' = events
            /\ registry' = registry]_vars

\* cancel() was called on a running task: its CANCEL request is in the pipe
\* and the task is still RUNNING.
C12_Witness ==
  \E t \in Tasks :
    /\ ncancel[t] = 1
    /\ status[t] = RUNNING
    /\ Holds(stdin, Request(CANCEL, t, "none"))

\* The worker's receiver thread takes a CANCEL request off stdin in this step.
ReadsCancel ==
  /\ WorkerUp
  /\ proc' = proc
  /\ recv.pc = "read"
  /\ stdin # <<>>
  /\ stdin' = Tail(stdin)
  /\ Head(stdin).type = CANCEL

\* C13: cancellation is cooperative.  Reading a CANCEL request only sets
\* cancel_requested on the named task, and changes nothing when the uuid is
\* unknown: it writes no response and moves no script.  A CANCELATION
\* response is written for a task only by a step of its running script,
\* the script's call of task.cancel().
C13_CooperativeCancel ==
  [][/\ ReadsCancel
          => LET t == Head(stdin).task IN
               /\ stdout' = stdout
               /\ written' = written
               /\ wtasks' = wtasks
               /\ wqueue' = wqueue
               /\ wt' = IF t \in wtasks
                          THEN [wt EXCEPT ![t].cancel_requested = TRUE]
                          ELSE wt
     /\ \A t \in Tasks :
          /\ Len(written'[t]) = Len(written[t]) + 1
          /\ written'[t][Len(written'[t])] = CANCELATION
          => /\ Executing(t)
             /\ wt[t].pc = "script"
             /\ wt'[t].ops = wt[t].ops + 1]_vars

\* A task whose cancellation was requested ran on and completed: the worker
\* wrote LAUNCH and COMPLETION for it and no CANCELATION.
C13_Witness ==
  \E t \in Tasks :
    /\ wt[t].cancel_requested
    /\ written[t] = <<LAUNCH, COMPLETION>>

\* C16: a task whose EXECUTE request names the queue "main" is run by the
\* worker's main loop on the main thread, never on a spawned thread; a task
\* with any other queue, or none, is run on its own thread, never on the
\* main thread.
C16_QueueDispatch ==
  \A t \in Tasks :
    /\ wt[t].ranOn # "none" => (wt[t].queue = "main" <=> wt[t].ranOn = "main")
    /\ mainl.pc = "run" /\ mainl.task = t => wt[t].queue = "main"
    /\ wt[t].thread # "none" => wt[t].queue # "main"

\* A task with queue "main" was run to completion by the main loop.
C16_Witness ==
  \E t \in Tasks :
    /\ wt[t].queue = "main"
    /\ wt[t].ranOn = "main"
    /\ written[t] = <<LAUNCH, COMPLETION>>

\* The janitor prints a response for task t in this step.
JanitorWrites(t) ==
  /\ jan.pc = "fail"
  /\ Min(jan.dead) = t
  /\ written'[t] # written[t]

\* C19: the janitor emits FAILURE "thread death", exactly once, for a task
\* it removed from the task map, and never for a task that has already
\* emitted a terminal response.
C19_ThreadDeath ==
  [][\A t \in Tasks :
       JanitorWrites(t)
         => /\ written'[t] = Append(written[t], FAILURE)
            /\ t \notin wtasks
            /\ ~HasTerminalEvent(written[t])]_vars

\* Every response the worker wrote for task t has been handled by the client.
AllHandled(t) ==
  /\ ~Handling(t)
  /\ \A k \in 1..Len(stdout) : stdout[k].task # t

\* C18: when a task's script raises, the worker writes a FAILURE response
\* with the traceback, and once the client has handled the task's responses
\* the task is FAILED, its error is the traceback and it is out of the
\* registry.
C18_ScriptRaises ==
  \A t \in Tasks :
    WorkerUp /\ wt[t].raised
      => /\ Holds(written[t], FAILURE)
         /\ AllHandled(t)
              => /\ status[t] = FAILED
                 /\ error[t] = Traceback
                 /\ t \notin registry

\* C14: the requests written to the worker's stdin by concurrent caller
\* threads are serialized: every line the worker reads is the complete text
\* of one request, and on the wire the text of a request is followed by its
\* own newline, never by the text of another request.
C14_WireSerialized ==
  /\ \A k \in 1..Len(wgot) : Decoded(wgot[k]) = "request"
  /\ \A k \in 1..(Len(wire) - 1) :
       wire[k] # Newline => wire[k + 1] = Newline

\* C15: constructing a Service spawns no process, and however many threads
\* call start() or task(), at most one worker process is ever spawned, with
\* one set of stdout, stderr and monitor threads.
C15_SingleSpawn ==
  /\ proc = "none" => spawned = 0
  /\ spawned <= 1
  /\ threadSets <= 1

\* C17: exports persist across tasks and nothing else does.  The names a
\* task's script starts with, besides the task handle and the inputs, are
\* exactly the names in the worker's export registry at that moment: the
\* names exported before by task.export calls and the names under which the
\* encoder auto-exported values before; a top-level name that scripts
\* assigned and nobody exported is visible to no task.
C17_ExportsPersist ==
  \A w \in ScopeTasks :
    scPc[w] # "new"
      => /\ visible[w] = atBind[w].exp \cup atBind[w].auto
         /\ \A n \in assigned \ (exported \cup autoExported) :
              n \notin visible[w]

\* C17 as stated: the names a task's script starts with are exactly the
\* names exported before by task.export calls.
C17_OnlyExportCalls ==
  \A w \in ScopeTasks : scPc[w] # "new" => visible[w] = atBind[w].exp

\* A task assigned a and exported b and has ended; a later task started with
\* b in its scope and without a.
C17_Witness ==
  \E u, w \in ScopeTasks :
    /\ scPc[u] = "done"
    /\ "a" \in assigned \ exported
    /\ scPc[w] = "run"
    /\ visible[w] = {"b"}
    /\ atBind[w].exp = {"b"}

\* The position of task t in the order the main loop ran the tasks.
StartedAt(t) == CHOOSE i \in 1..Len(mstarted) : mstarted[i] = t

\* The tasks whose EXECUTE request with queue "main" the receiver has read.
MainReceived ==
  {rseen[i].task : i \in {j \in 1..Len(rseen) :
       rseen[j].kind = "execute" /\ rseen[j].queue = "main"}}

\* C29: the worker's main queue is FIFO: of two EXECUTE requests with queue
\* "main" received in the order A then B, the main loop does not run B's
\* script unless it has run A's before.
C29_MainQueueFifo ==
  \A a \in MainReceived, b \in MainReceived :
    a < b /\ (\E i \in 1..Len(mstarted) : mstarted[i] = b)
      => /\ \E i \in 1..Len(mstarted) : mstarted[i] = a
         /\ StartedAt(a) < StartedAt(b)

\* C27: a request line that cannot be parsed leaves the receiver running:
\* after the receiver has read such a line it is still in its loop, so
\* that the requests after it are processed.
C27_ParseErrorContinues ==
  \A i \in 1..Len(rseen) : ~Parses(rseen[i].kind) /\ rseen[i].kind # "empty"
                             => rcvPc = "read"

\* Whether a value holds a worker_object sentinel, at any depth of its maps
\* and lists.
RECURSIVE HasSentinel(_)
HasSentinel(v) ==
  \/ /\ v.tag = "map"
     /\ Has(v, "appose_type")
     /\ Get(v, "appose_type") = Atom("worker_object")
  \/ /\ v.tag \in {"map", "list"}
     /\ \E i \in 1..Len(v.items) : HasSentinel(v.items[i][2])

\* C21: after a COMPLETION response has been handled the task's outputs
\* hold no worker_object sentinel at any depth: they are the decoded
\* outputs with every sentinel replaced by a proxy for its var_name.
C21_OutputsProxified ==
  cPc = "handled"
    => /\ ~HasSentinel(coutputs)
       /\ coutputs = proxify_worker_objects(Get(cback, "outputs"))

\* Whether a value holds a plain dict whose appose_type entry is "shm" or
\* "ndarray".
RECURSIVE HasTaggedMap(_)
HasTaggedMap(v) ==
  \/ /\ v.tag = "map"
     /\ Has(v, "appose_type")
     /\ Get(v, "appose_type") \in {Atom("shm"), Atom("ndarray")}
  \/ \E i \in 1..Len(v.items) : HasTaggedMap(v.items[i][2])

\* Whether a JSON text is free of newlines: its strings are the only place
\* where the encoder writes characters of the message.
RECURSIVE SingleLine(_)
SingleLine(j) ==
  /\ j.tag = "atom" => j.val # WithNewline
  /\ \A i \in 1..Len(j.items) : SingleLine(j.items[i][2])

C24_DisposeCloses ==
  \A p \in Processes :
    shmHandle[p].disposed
      => /\ shmHandle[p].map = "closed"
         /\ <<p, "dispose">> \in shmDestroyedBy <=> shmHandle[p].flagAt

C26_RegionSize ==
  ndPc = "made" /\ ndDtype.width > 0
    => 8 * ndSize >= Prod(ndShape) * ndDtype.width

\* An NDArray of three 4-bit elements has been made on a region of 2 bytes.
C26_Witness ==
  /\ ndPc = "made"
  /\ ndDtype.width = 4
  /\ ndShape = <<3>>
  /\ ndSize = 2

\* A line that is not valid JSON, has no task id, names a task that is not
\* in the registry, or has a responseType that is not a ResponseType.
InvalidLine(tasks, line) ==
  \/ line.kind = "text"
  \/ /\ line.kind = "json"
     /\ \/ line.task = 0
        \/ line.task \notin {t \in StdoutTasks : tasks[t].registered}
        \/ line.type = "BOGUS"

C30_UpdateFrame ==
  [][\A t \in Tasks :
       /\ pump.pc \in {"apply", "deliver"}
       /\ pump.task = t
       /\ pump.type = UPDATE
       /\ pump' # pump
       => /\ status'[t] = status[t]
          /\ error'[t] = error[t]
          /\ (t \in registry') = (t \in registry)
          /\ waitPc[t] = "waiting" => waitPc'[t] = "waiting"]_vars

\* C22: a proxy operation runs one task and returns its result: the
\* operation returns only if its task is COMPLETE, at most one EXECUTE
\* request was written for the task, and if the task is FAILED, CANCELED
\* or CRASHED when the operation ends the operation raises.
C22_ProxyOperation ==
  [][\A t \in Tasks :
       /\ t \in proxied
       /\ ProxyOutcome(waitPc[t]) = "running"
       /\ ProxyOutcome(waitPc'[t]) # "running"
       => /\ executes'[t] <= 1
          /\ ProxyOutcome(waitPc'[t]) = "returned" => status'[t] = COMPLETE
          /\ status'[t] \in {FAILED, CANCELED, CRASHED}
               => ProxyOutcome(waitPc'[t]) = "raised"]_vars

\* C31: the final statement of a script is evaluated for the script's value
\* exactly when it is an expression statement, and then the statements
\* before it are executed; with any other final statement, an assignment of
\* whatever kind included, the whole script is executed and no value taken.
C31_FinalStatement ==
  runPc \in {"done", "raised"} =>
    LET n == Len(runBody) IN
      IF n > 0 /\ runBody[n] = "Expr"
        THEN /\ runExecuted = SubSeq(runBody, 1, n - 1)
             /\ runResult = "value"
        ELSE /\ runExecuted = runBody
             /\ runResult = "none"
             /\ runPc = "done"

\* The worker's stdin has nothing left to deliver but the end of input (EOF
\* or an empty line).
AtEndOfInput == rstdin # <<>> /\ Head(rstdin).kind = "empty"

\* C32: once the worker's stdin is at its end of input the receiver stops
\* and Worker.running is cleared, which ends the main loop and the janitor,
\* so that the worker process exits when its task threads have finished.
C32_ShutdownOnEof == AtEndOfInput ~> (rcvPc = "returned" /\ ~rrunning)

\* C39: a task that has emitted its terminal response is eventually removed
\* from the worker's task map, whether it ran on a thread of its own or on
\* the main thread.
C39_TaskMapDrained ==
  \A t \in Tasks : (t \in wtasks /\ wt[t].finished) ~> (t \notin wtasks)

\* C33 as stated: Service.close() returns only when the worker process has
\* terminated.
C33_CloseBlocks ==
  [][(stdinOpen /\ ~stdinOpen') => proc' = "exited"]_vars

\* C33, amended: Service.close() closes the client's end of the worker's
\* stdin and returns without waiting: it leaves the worker process and its
\* threads as they are, and the worker may still be running when it returns.
C33_CloseRequestsExit ==
  [][(stdinOpen /\ ~stdinOpen') =>
       /\ proc' = proc
       /\ UNCHANGED <<pipeVars, workerVars>>]_vars

\* close() has returned and the worker process is still running, with a
\* task's script in progress.
C33_Witness ==
  /\ ~stdinOpen
  /\ proc = "running"
  /\ \E t \in Tasks : wt[t].pc = "script"

\* C34: every auto-exported object gets a name of its own: no two distinct
\* objects are ever stored in the export registry under the same
\* _appose_auto_N, and the name in each emitted worker_object sentinel is
\* bound in the registry to the object the sentinel was emitted for.
C34_AutoNamesUnique ==
  /\ \A p, q \in aeStored : p[1] = q[1] => p[2] = q[2]
  /\ aeEmitted \subseteq aeExports

\* C35: a task for which the worker wrote a terminal response before its
\* process was gone is never reported CRASHED: its status is never CRASHED
\* and no CRASH event is made for it, whether the stdout pump or the process
\* monitor runs first; once both threads are done its status is the one of
\* the response.
C35_TerminalResponseWins ==
  \A t \in Tasks :
    TerminalResponses(written[t]) # {} =>
      /\ status[t] # CRASHED
      /\ CrashCount(events[t]) = 0
      /\ (pump.pc = "done" /\ mon.pc \in {"done", "dead"}) =>
           \E i \in TerminalResponses(written[t]) :
             status[t] = HandleStatus(written[t][i], status[t])

\* The pump or the monitor is inside Task._handle or Task._crash of task t.
FanHandling(t) ==
  \/ fnPump.pc \in {"apply", "call"} /\ fnPump.task = t
  \/ fnMon.pc \in {"crash", "call"} /\ fnMon.task = t

\* C36: when a listener has raised on a terminal event of a task, then once
\* the thread that delivered the event is through with it every listener of
\* the task has been notified of the event and no thread is left blocked in
\* wait_for() on the task.
C36_RaisingListener ==
  \A t \in FanTasks : \A r \in fnRaised[t] :
    (is_terminal(r[2]) /\ ~FanHandling(t)) =>
      /\ \A l \in 1..fnListeners[t] : <<l, r[2]>> \in fnCalls[t]
      /\ fnWait[t] # "waiting"

\* C37: when a listener of one task has ended the monitor's crash sweep by
\* raising, every task in the registry has still been crashed, with its
\* waiters woken, and the registry has still been cleared.
C37_SweepSurvivesListener ==
  fnMon.pc = "raised" =>
    /\ \A t \in fnRegistry : fnStatus[t] = CRASHED /\ fnWait[t] # "waiting"
    /\ fnRegistry = {}

\* C38: close(), and leaving a with-block, on a service that was never
\* started returns without raising and spawns no process.
C38_CloseBeforeStart ==
  \A i \in 1..Len(lcOps) :
    (lcOps[i].op \in {"close", "exit"} /\ ~lcOps[i].started) =>
      /\ ~lcOps[i].raised
      /\ lcOps[i].spawned = 0

====
